---- MODULE Spec2Model ----
(***************************************************************************)
(* A model of go-diskfs: the squashfs read-only filesystem handle with its *)
(* decompressed-block LRU cache (filesystem/squashfs/squashfs.go), the     *)
(* Disk facade (disk/disk.go) and the MBR partition content streaming      *)
(* exercised by partition/mbr/partition_internal_test.go.                  *)
(***************************************************************************)
EXTENDS Integers, Sequences, FiniteSets, TLC

VARIABLES
    workspace,   \* FileSystem.workspace: "" for a handle made by Read
    blocksize,   \* FileSystem.blocksize
    compressor,  \* FileSystem.compressor: "nil" or the name of a compressor
    fragments,   \* FileSystem.fragments: sequence of fragmentEntry
    cache,       \* FileSystem.cache: the lru (isNil for a handle made by Create)
    recency,     \* history: disk positions cached through the lru since the
                 \* capacity was last set, most recent first, no duplicates
    ret,         \* what the last squashfs call returned and did
    host,        \* the host filesystem below the workspace directory (below
                 \* "/" for a handle without workspace): path -> kind
    disk,        \* the Disk: its Backend (writable or not, the table and the
                 \* filesystems stored on it) and its Table field
    dret,        \* what the last call on the Disk returned and did
    codec        \* the last MBR entry conversion: its input and its result

fsVars == <<workspace, blocksize, compressor, fragments, cache, recency, ret, host>>

diskVars == <<disk, dret>>
mbrVars == <<codec>>

vars == <<workspace, blocksize, compressor, fragments, cache, recency, ret, host, disk, dret, codec>>

----------------------------------------------------------------------------
(* Bounds of the model *)

MaxPos == 3            \* disk positions of blocks are 0..MaxPos
MaxBlocks == 3         \* largest small capacity SetCacheSize is asked for

(* Program constants *)

defaultBlockSize == 131072
minBlocksize == 4096
maxBlocksize == 1048576
defaultCacheSize == 134217728

Positions == 0..MaxPos

----------------------------------------------------------------------------
(* Go arithmetic and sequences *)

\* Go's integer division truncates toward zero
GoDiv(a, b) == IF a >= 0 THEN a \div b ELSE -((-a) \div b)

RECURSIVE Without(_, _)
Without(s, x) ==
    IF s = <<>> THEN <<>>
    ELSE IF Head(s) = x THEN Without(Tail(s), x)
    ELSE <<Head(s)>> \o Without(Tail(s), x)

Take(s, n) == SubSeq(s, 1, IF n < Len(s) THEN n ELSE Len(s))

----------------------------------------------------------------------------
(* Bytes: a byte slice is the range [lo, hi) of the block stored at disk   *)
(* position origin, either as stored (dec = FALSE) or decompressed.        *)

NoData == [origin |-> -1, dec |-> FALSE, lo |-> 0, hi |-> 0]

\* backend.ReadAt(b, pos) with len(b) = size, when it delivers all of it
diskBytes(pos, size) == [origin |-> pos, dec |-> FALSE, lo |-> 0, hi |-> size]

\* Compressor.decompress: the payload grows
decompress(b) == [origin |-> b.origin, dec |-> TRUE, lo |-> 0, hi |-> 2 * (b.hi - b.lo)]

dataLen(b) == b.hi - b.lo

----------------------------------------------------------------------------
(* The lru: blocks in a list, least recently used first *)

NilCache == [isNil |-> TRUE, maxBlocks |-> 0, list |-> <<>>]

newLRU(maxBlocks) == [isNil |-> FALSE, maxBlocks |-> maxBlocks, list |-> <<>>]

\* drop least recently used blocks until at most n remain
trim(list, n) ==
    IF Len(list) > n
    THEN SubSeq(list, Len(list) - (IF n > 0 THEN n ELSE 0) + 1, Len(list))
    ELSE list

setMaxBlocks(l, maxBlocks) ==
    [l EXCEPT !.maxBlocks = maxBlocks, !.list = trim(l.list, maxBlocks)]

cachedAt(l, pos) == {i \in 1..Len(l.list) : l.list[i].pos = pos}

isCached(l, pos) == cachedAt(l, pos) # {}

cacheEnabled(l) == ~l.isNil /\ l.maxBlocks > 0

\* lru.get(pos, fetch): fetched is what fetch() returns when it is called,
\* [data, size, err].  The result carries the lru afterwards, what the
\* caller gets and how often fetch was called.
lruGet(l, pos, fetched) ==
    IF ~cacheEnabled(l)
    THEN [l |-> l, data |-> fetched.data, size |-> fetched.size,
          err |-> fetched.err, calls |-> 1]
    ELSE IF isCached(l, pos)
    THEN LET i == CHOOSE j \in cachedAt(l, pos) : TRUE
             blk == l.list[i]
             rest == SubSeq(l.list, 1, i - 1) \o SubSeq(l.list, i + 1, Len(l.list))
         IN [l |-> [l EXCEPT !.list = Append(rest, blk)],
             data |-> blk.data, size |-> blk.size, err |-> "nil", calls |-> 0]
    ELSE IF fetched.err # "nil"
    THEN [l |-> l, data |-> NoData, size |-> 0, err |-> fetched.err, calls |-> 1]
    ELSE [l |-> [l EXCEPT !.list =
                    Append(trim(l.list, l.maxBlocks - 1),
                           [pos |-> pos, data |-> fetched.data, size |-> fetched.size])],
          data |-> fetched.data, size |-> fetched.size, err |-> "nil", calls |-> 1]

\* the cached positions, most recently used first
MRU(l) == [i \in 1..Len(l.list) |-> l.list[Len(l.list) + 1 - i].pos]

\* history: pos becomes the most recently used position
touch(r, pos) == <<pos>> \o Without(r, pos)

----------------------------------------------------------------------------
(* The squashfs image behind a handle made by Read *)

\* metadata blocks lie at positions 0..MaxPos-1
MetaPositions == 0..(MaxPos - 1)

\* the fragment table: fragment 0 is a compressed block at the last position,
\* fragment 1 an uncompressed one whose start lies where a metadata block is
FragmentTable ==
    <<[start |-> MaxPos, size |-> 6, compressed |-> TRUE],
      [start |-> 0, size |-> 8, compressed |-> FALSE]>>

\* on-disk size word of the metadata block at pos
metaSize(pos) == 10 + pos

IOs == {"ok", "eof", "readerr", "short", "decomperr"}

Ret(op, err) ==
    [op |-> op, err |-> err, arg |-> 0, path |-> <<>>, data |-> NoData,
     file |-> "", entries |-> <<>>, want |-> -1,
     accessed |-> FALSE, hit |-> FALSE, calls |-> 0, reads |-> 0, io |-> "none",
     steps |-> 0, hint |-> "", inode |-> [header |-> "", body |-> [type |-> "", fixed |-> 0, tail |-> 0]],
     sizes |-> <<>>, offset |-> 0, length |-> 0]

----------------------------------------------------------------------------
(* FileSystem.readFragment *)

\* a slip: the size field taken for the position
fragmentPos_size(fragmentInfo) == fragmentInfo.size

\* pos := int64(fragmentInfo.start)
fragmentPos(fragmentInfo) == fragmentInfo.start

\* a slip: the block cached under the fragment index
cacheKey_index(index, pos) == index

\* the key of fs.cache.get(pos, ...)
cacheKey(index, pos) == pos

\* a slip: the check of the number of bytes read is missing
fragmentFetch_noShortCheck(fragmentInfo, index, pos, io) ==
    LET b == diskBytes(pos, fragmentInfo.size)
        failed == [data |-> NoData, size |-> 0, err |-> "error"]
    IN  IF io = "readerr" THEN failed
        ELSE IF fragmentInfo.compressed
        THEN IF compressor = "nil" THEN failed
             ELSE IF io = "decomperr" THEN failed
             ELSE [data |-> decompress(b), size |-> 0, err |-> "nil"]
        ELSE [data |-> b, size |-> 0, err |-> "nil"]

\* the fetch closure handed to cache.get: one backend read at pos, then
\* decompression when the fragment entry says so
fragmentFetch(fragmentInfo, index, pos, io) ==
    LET b == diskBytes(pos, fragmentInfo.size)
        failed == [data |-> NoData, size |-> 0, err |-> "error"]
    IN  IF io = "readerr" THEN failed
        ELSE IF io = "short" THEN failed
        ELSE IF fragmentInfo.compressed
        THEN IF compressor = "nil" THEN failed
             ELSE IF io = "decomperr" THEN failed
             ELSE [data |-> decompress(b), size |-> 0, err |-> "nil"]
        ELSE [data |-> b, size |-> 0, err |-> "nil"]

\* data[offset : offset+fragmentSize]
sliceFragment(data, offset, fragmentSize) ==
    [origin |-> data.origin, dec |-> data.dec,
     lo |-> data.lo + offset, hi |-> data.lo + offset + fragmentSize]

sliceInRange(data, offset, fragmentSize) ==
    /\ offset <= offset + fragmentSize
    /\ offset + fragmentSize <= dataLen(data)

\* a slip: an index equal to the number of entries is let through
pastTable_above(n, index) == n < index

\* if len(fs.fragments)-1 < int(index)
pastTable(n, index) == n - 1 < index

readFragment(index, offset, fragmentSize, io) ==
    IF pastTable(Len(fragments), index)
    THEN /\ ret' = [Ret("readFragment", "error") EXCEPT
                        !.arg = index, !.offset = offset, !.length = fragmentSize]
         /\ UNCHANGED <<cache, recency>>
    ELSE IF index + 1 \notin DOMAIN fragments
    THEN /\ ret' = [Ret("readFragment", "panic") EXCEPT
                        !.arg = index, !.offset = offset, !.length = fragmentSize]
         /\ UNCHANGED <<cache, recency>>
    ELSE LET fragmentInfo == fragments[index + 1]
             pos == fragmentPos(fragmentInfo)
             want == fragments[index + 1].start
             got == lruGet(cache, cacheKey(index, pos),
                           fragmentFetch(fragmentInfo, index, pos, io))
             out == [Ret("readFragment", got.err) EXCEPT
                        !.arg = index, !.offset = offset, !.length = fragmentSize,
                        !.want = want, !.accessed = TRUE,
                        !.hit = isCached(cache, want) /\ cacheEnabled(cache),
                        !.calls = got.calls, !.reads = got.calls,
                        !.io = IF got.calls = 0 THEN "none" ELSE io]
         IN  /\ cache' = got.l
             /\ recency' = IF got.err = "nil" /\ cacheEnabled(cache)
                            THEN touch(recency, want) ELSE recency
             /\ ret' = IF got.err # "nil" THEN out
                        ELSE IF ~sliceInRange(got.data, offset, fragmentSize)
                        THEN [out EXCEPT !.err = "panic"]
                        ELSE [out EXCEPT !.data = sliceFragment(got.data, offset, fragmentSize)]

----------------------------------------------------------------------------
(* Metadata blocks are fetched through the same lru *)

\* readMetaBlock: the length word, the payload, decompressed
metaFetch(pos, io) ==
    IF io \in {"readerr", "short", "decomperr"}
    THEN [data |-> NoData, size |-> 0, err |-> "error"]
    ELSE [data |-> decompress(diskBytes(pos, metaSize(pos))),
          size |-> metaSize(pos), err |-> "nil"]

readMetadata(pos, io) ==
    LET got == lruGet(cache, pos, metaFetch(pos, io))
    IN  /\ cache' = got.l
        /\ recency' = IF got.err = "nil" /\ cacheEnabled(cache)
                       THEN touch(recency, pos) ELSE recency
        /\ ret' = [Ret("readMetadata", got.err) EXCEPT
                       !.want = pos, !.accessed = TRUE,
                       !.hit = isCached(cache, pos) /\ cacheEnabled(cache),
                       !.data = got.data,
                       !.calls = got.calls, !.reads = got.calls,
                       !.io = IF got.calls = 0 THEN "none" ELSE io]

----------------------------------------------------------------------------
(* FileSystem.SetCacheSize, FileSystem.GetCacheSize *)

\* a slip: a cache of at least one block
cacheBlocks_atLeastOne(cacheSize) ==
    LET blocks == GoDiv(cacheSize, blocksize)
    IN  IF blocks <= 0 THEN 1 ELSE blocks

cacheBlocks(cacheSize) ==
    LET blocks == GoDiv(cacheSize, blocksize)
    IN  IF blocks <= 0 THEN 0 ELSE blocks

SetCacheSize(cacheSize) ==
    /\ cache' = IF cache.isNil THEN cache
                 ELSE setMaxBlocks(cache, cacheBlocks(cacheSize))
    /\ recency' = <<>>
    /\ ret' = [Ret("SetCacheSize", "nil") EXCEPT !.arg = cacheSize]

\* a slip: the capacity returned in blocks
GetCacheSize_inBlocks == IF cache.isNil THEN 0 ELSE cache.maxBlocks

GetCacheSize == IF cache.isNil THEN 0 ELSE cache.maxBlocks * blocksize

CacheSizes ==
    {-blocksize, -1, 0, blocksize - 1}
        \cup {k * blocksize + (k - 1) : k \in 1..MaxBlocks}

----------------------------------------------------------------------------
(* Paths.  A path string is a sequence of tokens, "/" or a name. *)

Names == {"a", "d"}

lastSlash(p) ==
    LET at == {i \in 1..Len(p) : p[i] = "/"}
    IN  IF at = {} THEN 0 ELSE CHOOSE i \in at : \A j \in at : j <= i

RECURSIVE trimSlashes(_)
trimSlashes(p) ==
    IF p # <<>> /\ p[Len(p)] = "/" THEN trimSlashes(SubSeq(p, 1, Len(p) - 1)) ELSE p

\* path.Clean of a path without "." or ".." elements and doubled slashes
pathClean(p) ==
    IF p = <<>> THEN <<".">>
    ELSE IF trimSlashes(p) = <<>> THEN <<"/">>
    ELSE trimSlashes(p)

\* path.Dir
pathDir(p) == pathClean(SubSeq(p, 1, lastSlash(p)))

\* path.Base
pathBase(p) ==
    IF p = <<>> THEN <<".">>
    ELSE IF trimSlashes(p) = <<>> THEN <<"/">>
    ELSE SubSeq(trimSlashes(p), lastSlash(trimSlashes(p)) + 1, Len(trimSlashes(p)))

\* splitPath: the elements between slashes, empty ones dropped
RECURSIVE splitPath(_)
splitPath(p) ==
    IF p = <<>> THEN <<>>
    ELSE IF Head(p) = "/" THEN splitPath(Tail(p))
    ELSE <<Head(p)>> \o splitPath(Tail(p))

\* path.Join(fs.workspace, p), as the path below the workspace directory
RECURSIVE hostPath(_)
hostPath(p) ==
    IF p = <<>> THEN <<>>
    ELSE IF Head(p) \in {"/", "."} THEN hostPath(Tail(p))
    ELSE <<Head(p)>> \o hostPath(Tail(p))

Paths ==
    { <<"/">>, <<"/", "a">>, <<"/", "d">>, <<"/", "d", "/", "a">>,
      <<"/", "d", "/", "d">>, <<"/", "a", "/", "a">>, <<"a", "/", "a">>, <<"a">>,
      <<"/", "d", "/">>, <<"/", "D">> }

----------------------------------------------------------------------------
(* The host filesystem: os.MkdirAll, os.Remove, os.Rename, os.OpenFile *)

HostNodes == {<<>>} \cup {<<n>> : n \in Names} \cup {<<n, m>> : n \in Names, m \in Names}

EmptyHost == [n \in HostNodes |-> IF n = <<>> THEN "dir" ELSE "none"]

isPrefix(a, b) == Len(a) <= Len(b) /\ SubSeq(b, 1, Len(a)) = a

properPrefixes(n) == {SubSeq(n, 1, k) : k \in 0..(Len(n) - 1)}

children(h, n) == {m \in HostNodes : m # n /\ isPrefix(n, m) /\ h[m] # "none"}

parentIsDir(h, n) == n # <<>> /\ h[SubSeq(n, 1, Len(n) - 1)] = "dir"

\* os.MkdirAll
osMkdirAll(h, n) ==
    IF n \notin HostNodes \/ \E m \in properPrefixes(n) \cup {n} : h[m] = "file"
    THEN [h |-> h, err |-> "error"]
    ELSE [h |-> [m \in HostNodes |-> IF isPrefix(m, n) THEN "dir" ELSE h[m]], err |-> "nil"]

\* os.Remove
osRemove(h, n) ==
    IF n \notin HostNodes \/ n = <<>> \/ h[n] = "none" \/ children(h, n) # {}
    THEN [h |-> h, err |-> "error"]
    ELSE [h |-> [h EXCEPT ![n] = "none"], err |-> "nil"]

\* os.Rename of a path to a path of the same depth
osRename(h, old, new) ==
    IF \/ old \notin HostNodes \/ new \notin HostNodes
       \/ old = <<>> \/ new = <<>> \/ Len(old) # Len(new)
       \/ h[old] = "none" \/ ~parentIsDir(h, new)
       \/ (h[new] = "dir" /\ (h[old] # "dir" \/ children(h, new) # {}))
       \/ (h[new] = "file" /\ h[old] = "dir")
    THEN [h |-> h, err |-> "error"]
    ELSE IF old = new THEN [h |-> h, err |-> "nil"]
    ELSE [h |-> [m \in HostNodes |->
                    IF isPrefix(new, m)
                    THEN h[old \o SubSeq(m, Len(new) + 1, Len(m))]
                    ELSE IF isPrefix(old, m) THEN "none" ELSE h[m]],
          err |-> "nil"]

\* open flags
O_WRONLY == 1
O_RDWR == 2
O_CREATE == 64
O_EXCL == 128
O_TRUNC == 512
O_APPEND == 1024

hasFlag(flag, bit) == (flag \div bit) % 2 = 1

\* os.OpenFile(name, flag, 0o644)
osOpenFile(h, n, flag) ==
    IF n \notin HostNodes THEN [h |-> h, err |-> "error"]
    ELSE IF h[n] = "none"
    THEN IF hasFlag(flag, O_CREATE) /\ parentIsDir(h, n)
         THEN [h |-> [h EXCEPT ![n] = "file"], err |-> "nil"]
         ELSE [h |-> h, err |-> "error"]
    ELSE IF hasFlag(flag, O_CREATE) /\ hasFlag(flag, O_EXCL)
    THEN [h |-> h, err |-> "error"]
    ELSE IF h[n] = "dir" /\ (hasFlag(flag, O_WRONLY) \/ hasFlag(flag, O_RDWR)
                              \/ hasFlag(flag, O_CREATE) \/ hasFlag(flag, O_TRUNC))
    THEN [h |-> h, err |-> "error"]
    ELSE [h |-> h, err |-> "nil"]

----------------------------------------------------------------------------
(* The directory tree of the image: inodes in the metadata block at        *)
(* position 0, the directory listings at positions 1 and 2                 *)

Entry(name, id, hint) ==
    [name |-> name, inode |-> id, inodeType |-> hint,
     isSubdirectory |-> (hint = "basicDirectory")]

ImageInodes ==
    [root |-> [type |-> "basicDirectory", block |-> 0, dirBlock |-> 1, extra |-> 0,
               entries |-> <<Entry("A", "fileA", "basicFile"),
                             Entry("a", "filea", "basicFile"),
                             Entry("d", "dird", "basicDirectory")>>],
     dird |-> [type |-> "extendedDirectory", block |-> 0, dirBlock |-> 2, extra |-> 0,
               entries |-> <<Entry("a", "fileda", "basicFile"),
                             Entry("s", "link", "basicSymlink")>>],
     fileA |-> [type |-> "basicFile", block |-> 0, dirBlock |-> 0, extra |-> 0,
                entries |-> <<>>],
     filea |-> [type |-> "basicFile", block |-> 0, dirBlock |-> 0, extra |-> 8,
                entries |-> <<>>],
     fileda |-> [type |-> "extendedFile", block |-> 0, dirBlock |-> 0, extra |-> 0,
                 entries |-> <<>>],
     link |-> [type |-> "basicSymlink", block |-> 0, dirBlock |-> 0, extra |-> 3,
               entries |-> <<>>]]

\* inodeTypeToSize: the common header and the fixed part of the body
inodeTypeToSize(iType) ==
    CASE iType = "basicDirectory" -> 32
      [] iType = "basicFile" -> 32
      [] iType = "basicSymlink" -> 24
      [] iType = "extendedDirectory" -> 40
      [] iType = "extendedFile" -> 56

InodeTypes ==
    {"basicDirectory", "basicFile", "basicSymlink", "extendedDirectory", "extendedFile"}

inodeHeaderSize == 16

\* readMetadata for the inode table: the first size bytes at the locator of
\* the inode id
inodeBytes(id, size) == [at |-> id, len |-> size]

\* parseInodeHeader: the type tag written in the common header
parseInodeHeader(b) ==
    IF b.len < inodeHeaderSize
    THEN [inodeType |-> "", err |-> "error"]
    ELSE [inodeType |-> ImageInodes[b.at].type, err |-> "nil"]

NoBody == [type |-> "", fixed |-> 0, tail |-> 0]

\* parseInodeBody on the bytes after the header: the fixed part of the type
\* and, when the bytes hold it, the trailing variable-length part; otherwise
\* the number of bytes the trailing part needs
parseInodeBody(b, iType) ==
    LET fixed == inodeTypeToSize(iType) - inodeHeaderSize
        tail == IF iType = ImageInodes[b.at].type THEN ImageInodes[b.at].extra ELSE 0
    IN  IF b.len < fixed
        THEN [body |-> NoBody, extra |-> 0, err |-> "error"]
        ELSE IF b.len - fixed >= tail
        THEN [body |-> [type |-> iType, fixed |-> fixed, tail |-> tail],
              extra |-> 0, err |-> "nil"]
        ELSE [body |-> [type |-> iType, fixed |-> fixed, tail |-> 0],
              extra |-> tail, err |-> "nil"]

\* a slip: the first read is never repeated
tooShort_never(size, have) == FALSE

\* if size > len(uncompressed)
tooShort(size, have) == size > have

NoInode == [header |-> "", body |-> NoBody]

\* getInode with every metadata read succeeding: the inode, the error and
\* the sizes of the metadata reads made in order
getInode(id, iType) ==
    LET first == inodeBytes(id, inodeTypeToSize(iType))
        header == parseInodeHeader(first)
        size == inodeTypeToSize(header.inodeType)
        again == header.inodeType # iType /\ tooShort(size, first.len)
        second == IF again THEN inodeBytes(id, size) ELSE first
        parsed == parseInodeBody([second EXCEPT !.len = @ - inodeHeaderSize],
                                 header.inodeType)
        third == inodeBytes(id, size + parsed.extra)
        reparsed == parseInodeBody([third EXCEPT !.len = @ - inodeHeaderSize],
                                   header.inodeType)
        sizes == <<first.len>> \o (IF again THEN <<size>> ELSE <<>>)
    IN  IF header.err # "nil"
        THEN [inode |-> NoInode, err |-> "error parsing inode header",
              sizes |-> <<first.len>>]
        ELSE IF parsed.err # "nil"
        THEN [inode |-> NoInode, err |-> "error parsing inode body", sizes |-> sizes]
        ELSE IF parsed.extra > 0
        THEN IF reparsed.err # "nil"
             THEN [inode |-> NoInode, err |-> "error parsing inode body",
                   sizes |-> Append(sizes, third.len)]
             ELSE [inode |-> [header |-> header.inodeType, body |-> reparsed.body],
                   err |-> "nil", sizes |-> Append(sizes, third.len)]
        ELSE [inode |-> [header |-> header.inodeType, body |-> parsed.body],
              err |-> "nil", sizes |-> sizes]

\* the table of getInode for the inodes of the image under every hint
inodesRead ==
    [id \in DOMAIN ImageInodes |-> [iType \in InodeTypes |-> getInode(id, iType)]]

\* getInode: the metadata reads it makes for the inode id under hint iType,
\* as the positions handed to the cache
getInodeReads(id, iType) ==
    [i \in 1..Len(inodesRead[id][iType].sizes) |-> ImageInodes[id].block]

RECURSIVE hydrateReads(_)
hydrateReads(entries) ==
    IF entries = <<>> THEN <<>>
    ELSE getInodeReads(Head(entries).inode, Head(entries).inodeType)
             \o hydrateReads(Tail(entries))

\* a slip: names compared without regard to case
foldCase(name) == IF name = "A" THEN "a" ELSE IF name = "D" THEN "d" ELSE name

findEntry_foldCase(entries, name) ==
    LET at == {i \in 1..Len(entries) : foldCase(entries[i].name) = foldCase(name)}
    IN  IF at = {} THEN 0 ELSE CHOOSE i \in at : \A j \in at : i <= j

findEntry(entries, name) ==
    LET at == {i \in 1..Len(entries) : entries[i].name = name}
    IN  IF at = {} THEN 0 ELSE CHOOSE i \in at : \A j \in at : i <= j

\* getDirectoryEntries(p, in) with every metadata read succeeding: the
\* metadata positions read in order, the outcome and the directory reached
RECURSIVE getDirectoryEntries(_, _)
getDirectoryEntries(parts, id) ==
    LET in == ImageInodes[id]
    IN  IF in.type \notin {"basicDirectory", "extendedDirectory"}
        THEN [acc |-> <<>>, err |-> "not a directory", dir |-> "", steps |-> 0]
        ELSE IF parts = <<>>
        THEN [acc |-> <<in.dirBlock>> \o hydrateReads(in.entries), err |-> "nil", dir |-> id,
              steps |-> 0]
        ELSE LET i == findEntry(in.entries, Head(parts))
             IN  IF i = 0
                 THEN [acc |-> <<in.dirBlock>>, err |-> "could not find path", dir |-> "",
                       steps |-> 0]
                 ELSE LET e == in.entries[i]
                          down == getDirectoryEntries(Tail(parts), e.inode)
                      IN  [acc |-> <<in.dirBlock>>
                                     \o getInodeReads(e.inode, e.inodeType) \o down.acc,
                           err |-> down.err, dir |-> down.dir, steps |-> 1 + down.steps]

\* the metadata reads ps made through the cache; the failAt-th backend read
\* fails (none when failAt = 0)
RECURSIVE cacheWalk(_, _, _, _)
cacheWalk(l, ps, failAt, reads) ==
    IF ps = <<>> THEN [l |-> l, err |-> "nil", reads |-> reads]
    ELSE LET miss == ~(cacheEnabled(l) /\ isCached(l, Head(ps)))
             io == IF miss /\ reads + 1 = failAt THEN "readerr" ELSE "ok"
         IN  CHOOSE out \in
                 { IF got.err # "nil"
                   THEN [l |-> got.l, err |-> got.err, reads |-> reads + got.calls]
                   ELSE cacheWalk(got.l, Tail(ps), failAt, reads + got.calls) :
                   got \in {lruGet(l, Head(ps), metaFetch(Head(ps), io))} } : TRUE

RECURSIVE touchAll(_, _)
touchAll(r, ps) == IF ps = <<>> THEN r ELSE touchAll(touch(r, Head(ps)), Tail(ps))

\* the paths listed: also names in the other case, a symlink, and a path
\* below a file
DirPaths ==
    Paths \cup { <<"/", "A">>, <<"/", "d", "/", "s">>, <<"d", "/">> }

\* the walk from the root for each path asked for, by ReadDir or, for the
\* directory of a path, by OpenFile
directoryWalks ==
    [p \in DirPaths \cup {pathDir(q) : q \in Paths} |->
        getDirectoryEntries(splitPath(p), "root")]

\* readDirectory(p): the cache afterwards, the entries or the error
readDirectory(p, failAt) ==
    LET walk == directoryWalks[p]
    IN  CHOOSE r \in
            { [l |-> io.l, reads |-> io.reads, accessed |-> walk.acc # <<>>,
               acc |-> walk.acc, steps |-> walk.steps,
               err |-> IF io.err # "nil" THEN "read error" ELSE walk.err,
               entries |-> IF io.err = "nil" /\ walk.err = "nil"
                           THEN ImageInodes[walk.dir].entries ELSE <<>>] :
              io \in {cacheWalk(cache, walk.acc, failAt, 0)} } : TRUE

entryNames(entries) == [i \in 1..Len(entries) |-> entries[i].name]

----------------------------------------------------------------------------
(* FileSystem.ReadDir, FileSystem.OpenFile *)

hostListing(h, n) ==
    {m \in HostNodes : Len(m) = Len(n) + 1 /\ isPrefix(n, m) /\ h[m] # "none"}

ReadDir(p, failAt) ==
    IF workspace # ""
    THEN /\ ret' = [Ret("ReadDir",
                         IF hostPath(p) \in HostNodes /\ host[hostPath(p)] = "dir"
                         THEN "nil" ELSE "error") EXCEPT !.path = p]
         /\ UNCHANGED <<cache, recency, host>>
    ELSE \E r \in {readDirectory(p, failAt)} :
             /\ cache' = r.l
             /\ recency' = IF r.err # "read error" /\ cacheEnabled(cache)
                            THEN touchAll(recency, r.acc) ELSE <<>>
             /\ ret' = [Ret("ReadDir", r.err) EXCEPT
                            !.path = p, !.entries = entryNames(r.entries),
                            !.steps = r.steps,
                            !.accessed = r.accessed, !.reads = r.reads]
             /\ UNCHANGED host

\* getInode(blockOffset, byteOffset, iType) for the locator of the inode id;
\* its metadata reads go through the cache
GetInode(id, iType, failAt) ==
    \E g \in {inodesRead[id][iType]} :
        \E io \in {cacheWalk(cache, getInodeReads(id, iType), failAt, 0)} :
            /\ cache' = io.l
            /\ recency' = IF io.err = "nil" /\ cacheEnabled(cache)
                           THEN touchAll(recency, getInodeReads(id, iType)) ELSE <<>>
            /\ ret' = [Ret("getInode", IF io.err # "nil" THEN "error reading block"
                                       ELSE g.err) EXCEPT
                           !.file = id, !.hint = iType,
                           !.inode = IF io.err # "nil" THEN NoInode ELSE g.inode,
                           !.sizes = g.sizes, !.reads = io.reads,
                           !.io = IF io.err # "nil" THEN "readerr" ELSE "ok"]
            /\ UNCHANGED host

\* a slip: no entry is taken for a directory
IsDir_never(e) == FALSE

\* directoryEntry.IsDir
IsDir(e) == e.isSubdirectory

writeMode(flag) ==
    \/ hasFlag(flag, O_WRONLY) \/ hasFlag(flag, O_RDWR)
    \/ hasFlag(flag, O_APPEND) \/ hasFlag(flag, O_CREATE)
    \/ hasFlag(flag, O_TRUNC) \/ hasFlag(flag, O_EXCL)

OpenFile(p, flag, failAt) ==
    LET dir == pathDir(p)
        filename == pathBase(p)
        out(err) == [Ret("OpenFile", err) EXCEPT !.arg = flag, !.path = p]
    IN  IF dir = filename
        THEN /\ ret' = out("cannot open directory as file")
             /\ UNCHANGED <<cache, recency, host>>
        ELSE IF workspace = ""
        THEN IF writeMode(flag)
             THEN /\ ret' = out("ErrReadonlyFilesystem")
                  /\ UNCHANGED <<cache, recency, host>>
             ELSE \E r \in {readDirectory(dir, failAt)} :
                  LET i == findEntry(r.entries, filename[1])
                      res == IF r.err # "nil" THEN out("could not read directory entries")
                             ELSE IF i # 0 /\ IsDir(r.entries[i])
                             THEN out("cannot open directory as file")
                             ELSE IF i = 0 THEN out("target file does not exist")
                             ELSE [out("nil") EXCEPT !.file = r.entries[i].inode]
                  IN  /\ cache' = r.l
                      /\ recency' = IF r.err # "read error" /\ cacheEnabled(cache)
                                     THEN touchAll(recency, r.acc) ELSE <<>>
                      /\ ret' = [res EXCEPT !.accessed = r.accessed, !.reads = r.reads,
                                             !.io = IF r.err = "read error"
                                                    THEN "readerr" ELSE "ok"]
                      /\ UNCHANGED host
        ELSE LET o == osOpenFile(host, hostPath(p), flag)
             IN  /\ host' = o.h
                 /\ ret' = out(IF o.err = "nil" THEN "nil" ELSE "target file does not exist")
                 /\ UNCHANGED <<cache, recency>>

----------------------------------------------------------------------------
(* The mutating calls of the filesystem interface *)

\* a slip: the directory is made whether or not there is a workspace
Mkdir_noWorkspaceCheck(p) ==
    LET m == osMkdirAll(host, hostPath(p))
    IN  /\ host' = m.h
        /\ ret' = Ret("Mkdir", IF m.err = "nil" THEN "nil" ELSE "error")

Mkdir(p) ==
    IF workspace = ""
    THEN /\ ret' = Ret("Mkdir", "ErrReadonlyFilesystem")
         /\ UNCHANGED host
    ELSE LET m == osMkdirAll(host, hostPath(p))
         IN  /\ host' = m.h
             /\ ret' = Ret("Mkdir", IF m.err = "nil" THEN "nil" ELSE "error")

SetLabel ==
    /\ ret' = Ret("SetLabel", "ErrReadonlyFilesystem")
    /\ UNCHANGED host

Rename(oldpath, newpath) ==
    IF workspace = ""
    THEN /\ ret' = Ret("Rename", "ErrReadonlyFilesystem")
         /\ UNCHANGED host
    ELSE LET m == osRename(host, hostPath(oldpath), hostPath(newpath))
         IN  /\ host' = m.h
             /\ ret' = Ret("Rename", m.err)

Remove(p) ==
    IF workspace = ""
    THEN /\ ret' = Ret("Remove", "ErrReadonlyFilesystem")
         /\ UNCHANGED host
    ELSE LET m == osRemove(host, hostPath(p))
         IN  /\ host' = m.h
             /\ ret' = Ret("Remove", m.err)

\* os.RemoveAll of the workspace directory; io tells whether removing works
osRemoveAll(h, io) ==
    IF io # "ok"
    THEN [h |-> h, err |-> "error"]
    ELSE [h |-> [n \in HostNodes |-> "none"], err |-> "nil"]

\* a slip: the error of removing the workspace is dropped
FileSystemClose_errorDropped(io) ==
    IF workspace # ""
    THEN /\ host' = osRemoveAll(host, io).h
         /\ ret' = [Ret("Close", "nil") EXCEPT !.io = io]
    ELSE /\ ret' = Ret("Close", "nil")
         /\ UNCHANGED host

\* FileSystem.Close
FileSystemClose(io) ==
    IF workspace # ""
    THEN LET m == osRemoveAll(host, io)
         IN  /\ host' = m.h
             /\ ret' = [Ret("Close", m.err) EXCEPT !.io = io]
    ELSE /\ ret' = Ret("Close", "nil")
         /\ UNCHANGED host

Mknod(pathname) ==
    /\ ret' = Ret("Mknod", "ErrNotImplemented")
    /\ UNCHANGED host

Link(oldpath, newpath) ==
    /\ ret' = Ret("Link", "ErrNotImplemented")
    /\ UNCHANGED host

Symlink(oldpath, newpath) ==
    /\ ret' = Ret("Symlink", "ErrNotImplemented")
    /\ UNCHANGED host

Chmod(name) ==
    /\ ret' = Ret("Chmod", "ErrNotImplemented")
    /\ UNCHANGED host

Chown(name) ==
    /\ ret' = Ret("Chown", "ErrNotImplemented")
    /\ UNCHANGED host

----------------------------------------------------------------------------
(* The Disk and the result of a call on it *)

\* a partition.Table that is nil, or one with its partitions in slot order
NilTable == [isNil |-> TRUE, partitions |-> <<>>]

StartSectors == 0..2

\* what is stored on the backend: for the sector a region starts at, the
\* filesystem types whose superblock parses there
BlankImage == [s \in StartSectors |-> {}]

\* the zero Disk: no backend, no sizes, no table; with no backend nothing is
\* writable and nothing is stored
NilDisk ==
    [Backend |-> "nil", Size |-> 0, writable |-> FALSE, LogicalBlocksize |-> 0,
     Table |-> NilTable, onDisk |-> NilTable, image |-> BlankImage]

\* the result of the call op for partition number part: the count and error
\* returned, the slot and byte range handed on (slot -1 when none was), the
\* filesystem type returned, the filesystem types tried as <<type, read
\* succeeded>>, the bytes the producer held (for a read: the
\* bytes the backend holds from the partition's start), the reads and writes
\* made on the backend as <<offset, length, offset in the stream>>, and the
\* chunks handed to the sink as <<offset in the stream, length, offset>>
Dret(op, part) ==
    [op |-> op, part |-> part, n |-> 0, err |-> "nil", slot |-> -1,
     start |-> 0, size |-> 0, fs |-> "nil", supplied |-> 0, failed |-> FALSE,
     failedAt |-> 0, writes |-> <<>>, reads |-> <<>>, sink |-> <<>>, probed |-> <<>>]

----------------------------------------------------------------------------
(* The MBR partition entry and its 16-byte form on disk: the bootable byte, *)
(* the starting CHS triple, the type code, the ending CHS triple, the      *)
(* first sector and the sector count, both little-endian                    *)

partitionEntrySize == 16

\* the partition entry: the fields of mbr.Partition
mbrEntry(boot, startCHS, type, endCHS, start, size) ==
    [Bootable |-> boot,
     StartHead |-> startCHS[1], StartSector |-> startCHS[2], StartCylinder |-> startCHS[3],
     Type |-> type,
     EndHead |-> endCHS[1], EndSector |-> endCHS[2], EndCylinder |-> endCHS[3],
     Start |-> start, Size |-> size]

ZeroEntry == mbrEntry(FALSE, <<0, 0, 0>>, 0, <<0, 0, 0>>, 0, 0)

\* {head, (sector & 0x3F) | ((cylinder >> 2) & 0xC0), cylinder & 0xFF}
packCHS_noHighCylinder(head, sector, cylinder) ==
    <<head, sector % 64, cylinder % 256>>

packCHS(head, sector, cylinder) ==
    <<head, (sector % 64) + (((cylinder \div 4) % 256) \div 64) * 64, cylinder % 256>>

\* the triple three packed bytes stand for
unpackCHS(b1, b2, b3) == <<b1, b2 % 64, (b2 \div 64) * 256 + b3>>

\* binary.LittleEndian for a 32-bit value
putUint32(n) ==
    <<n % 256, (n \div 256) % 256, (n \div 65536) % 256, (n \div 16777216) % 256>>

uint32At(b, i) == b[i] + 256 * b[i + 1] + 65536 * b[i + 2] + 16777216 * b[i + 3]

\* the 16 bytes of an entry
toBytes(p) ==
    <<IF p.Bootable THEN 128 ELSE 0>>
        \o packCHS(p.StartHead, p.StartSector, p.StartCylinder)
        \o <<p.Type>>
        \o packCHS(p.EndHead, p.EndSector, p.EndCylinder)
        \o putUint32(p.Start)
        \o putUint32(p.Size)

badLength_tooShortOnly(b) == Len(b) < partitionEntrySize

badLength(b) == Len(b) # partitionEntrySize

\* the entry 16 bytes stand for, or no entry and an error: for a slice that
\* is not 16 bytes long, and for a bootable byte other than 0x00 and 0x80
partitionFromBytes(b) ==
    IF badLength(b)
    THEN [isNil |-> TRUE, p |-> ZeroEntry,
          err |-> "data for partition was %d bytes instead of expected %d",
          errArgs |-> <<Len(b), partitionEntrySize>>]
    ELSE IF b[1] \notin {0, 128}
    THEN [isNil |-> TRUE, p |-> ZeroEntry, err |-> "invalid partition", errArgs |-> <<>>]
    ELSE [isNil |-> FALSE,
          p |-> mbrEntry(b[1] = 128, unpackCHS(b[2], b[3], b[4]), b[5],
                         unpackCHS(b[6], b[7], b[8]), uint32At(b, 9), uint32At(b, 13)),
          err |-> "nil", errArgs |-> <<>>]

\* the last conversion: the entry or the bytes given, and what came back
Codec(op, p, b, out) == [op |-> op, p |-> p, b |-> b, out |-> out]

NoCodec ==
    Codec("none", ZeroEntry, <<>>,
          [isNil |-> TRUE, p |-> ZeroEntry, err |-> "nil", errArgs |-> <<>>])

----------------------------------------------------------------------------
(* Handles: Read makes a read-only handle with a cache and reads the root  *)
(* inode through it, Create makes a handle with a workspace and no cache   *)

\* the FileSystem squashfs.Read returns for a superblock with block size bs
readFileSystem(bs) ==
    [workspace |-> "", blocksize |-> bs, compressor |-> "gzip",
     fragments |-> FragmentTable,
     cache |-> lruGet(newLRU(GoDiv(defaultCacheSize, bs)), ImageInodes.root.block,
                      metaFetch(ImageInodes.root.block, "ok")).l]

\* the FileSystem squashfs.Create returns
createFileSystem(bs) ==
    [workspace |-> "diskfs_squashfs", blocksize |-> bs, compressor |-> "nil",
     fragments |-> <<>>, cache |-> NilCache]

\* the nil *FileSystem
nilFileSystem ==
    [workspace |-> "", blocksize |-> 0, compressor |-> "nil",
     fragments |-> <<>>, cache |-> NilCache]

handleIs(h) ==
    /\ workspace = h.workspace
    /\ blocksize = h.blocksize
    /\ compressor = h.compressor
    /\ fragments = h.fragments
    /\ cache = h.cache

handleBecomes(h) ==
    /\ workspace' = h.workspace
    /\ blocksize' = h.blocksize
    /\ compressor' = h.compressor
    /\ fragments' = h.fragments
    /\ cache' = h.cache

ReadHandle(bs) == handleIs(readFileSystem(bs))

CreateHandle(bs) == handleIs(createFileSystem(bs))

Init ==
    /\ \/ \E bs \in {minBlocksize, defaultBlockSize} : ReadHandle(bs)
       \/ CreateHandle(defaultBlockSize)
    /\ recency = IF workspace = "" THEN <<ImageInodes.root.block>> ELSE <<>>
    /\ ret = Ret("open", "nil")
    /\ host = EmptyHost
    /\ disk = NilDisk
    /\ dret = Dret("open", 0)
    /\ codec = NoCodec

\* (offset, fragmentSize) pairs taken from inodes: one inside every fragment
\* block, one that only fits a decompressed block
Slices == {<<0, 2>>, <<3, 9>>}

DoReadFragment ==
    \E index \in 0..Len(FragmentTable) + 1, slice \in Slices, io \in IOs :
        /\ readFragment(index, slice[1], slice[2], io)
        /\ UNCHANGED <<workspace, blocksize, compressor, fragments, host, disk, dret, codec>>

DoReadMetadata ==
    \E pos \in MetaPositions, io \in {"ok", "readerr"} :
        /\ workspace = ""
        /\ readMetadata(pos, io)
        /\ UNCHANGED <<workspace, blocksize, compressor, fragments, host, disk, dret, codec>>

DoSetCacheSize ==
    \E cacheSize \in CacheSizes :
        /\ SetCacheSize(cacheSize)
        /\ UNCHANGED <<workspace, blocksize, compressor, fragments, host, disk, dret, codec>>

Next ==
    \/ DoReadFragment
    \/ DoReadMetadata
    \/ DoSetCacheSize

Spec == Init /\ [][Next]_vars

----------------------------------------------------------------------------
(* The calls of the filesystem interface on a handle *)

handleFrame == <<workspace, blocksize, compressor, fragments>>

Flags == {0, O_WRONLY, O_RDWR, O_APPEND, O_CREATE, O_TRUNC, O_EXCL}

\* backend reads that can be made to fail during one call
MaxFail == 2

\* the paths handed to the mutating calls, and the (old, new) pairs
MutPaths == { <<"/", "d">>, <<"/", "d", "/", "a">> }

PathPairs ==
    { << <<"/", "d">>, <<"/", "a">> >>,
      << <<"/", "d", "/", "a">>, <<"/", "d", "/", "d">> >> }

DoOpenFile ==
    \E p \in Paths, flag \in Flags :
        \E failAt \in (IF flag = 0 /\ workspace = "" THEN 0..MaxFail ELSE {0}) :
            OpenFile(p, flag, failAt) /\ UNCHANGED <<handleFrame, diskVars, mbrVars>>

DoReadDir ==
    \E p \in DirPaths :
        \E failAt \in (IF workspace = "" THEN 0..MaxFail ELSE {0}) :
            ReadDir(p, failAt) /\ UNCHANGED <<handleFrame, diskVars, mbrVars>>

DoGetInode ==
    \E id \in DOMAIN ImageInodes :
        \E iType \in InodeTypes :
            \E failAt \in 0..1 :
                /\ workspace = ""
                /\ GetInode(id, iType, failAt)
                /\ UNCHANGED <<handleFrame, diskVars, mbrVars>>

DoMkdir ==
    \E p \in MutPaths : Mkdir(p) /\ UNCHANGED <<cache, recency>> /\ UNCHANGED <<handleFrame, diskVars, mbrVars>>

DoSetLabel == SetLabel /\ UNCHANGED <<cache, recency>> /\ UNCHANGED <<handleFrame, diskVars, mbrVars>>

DoRename ==
    \E pp \in PathPairs :
        Rename(pp[1], pp[2]) /\ UNCHANGED <<cache, recency>> /\ UNCHANGED <<handleFrame, diskVars, mbrVars>>

DoRemove ==
    \E p \in MutPaths : Remove(p) /\ UNCHANGED <<cache, recency>> /\ UNCHANGED <<handleFrame, diskVars, mbrVars>>

DoMknod ==
    \E p \in MutPaths : Mknod(p) /\ UNCHANGED <<cache, recency>> /\ UNCHANGED <<handleFrame, diskVars, mbrVars>>

DoLink ==
    \E pp \in PathPairs :
        Link(pp[1], pp[2]) /\ UNCHANGED <<cache, recency>> /\ UNCHANGED <<handleFrame, diskVars, mbrVars>>

DoSymlink ==
    \E pp \in PathPairs :
        Symlink(pp[1], pp[2]) /\ UNCHANGED <<cache, recency>> /\ UNCHANGED <<handleFrame, diskVars, mbrVars>>

DoChmod ==
    \E p \in MutPaths : Chmod(p) /\ UNCHANGED <<cache, recency>> /\ UNCHANGED <<handleFrame, diskVars, mbrVars>>

DoChown ==
    \E p \in MutPaths : Chown(p) /\ UNCHANGED <<cache, recency>> /\ UNCHANGED <<handleFrame, diskVars, mbrVars>>

DoFileSystemClose ==
    \E io \in {"ok", "rmerr"} :
        FileSystemClose(io) /\ UNCHANGED <<cache, recency>> /\ UNCHANGED <<handleFrame, diskVars, mbrVars>>

NextFS ==
    \/ DoOpenFile
    \/ DoReadDir
    \/ DoGetInode
    \/ DoMkdir
    \/ DoSetLabel
    \/ DoRename
    \/ DoRemove
    \/ DoMknod
    \/ DoLink
    \/ DoSymlink
    \/ DoChmod
    \/ DoChown
    \/ DoFileSystemClose

\* a handle from Read with the default block size, or one from Create
InitFS ==
    /\ \/ ReadHandle(defaultBlockSize)
       \/ CreateHandle(defaultBlockSize)
    /\ recency = IF workspace = "" THEN <<ImageInodes.root.block>> ELSE <<>>
    /\ ret = Ret("open", "nil")
    /\ host = EmptyHost
    /\ disk = NilDisk
    /\ dret = Dret("open", 0)
    /\ codec = NoCodec

SpecFS == InitFS /\ [][NextFS]_vars

----------------------------------------------------------------------------
(* MBR partitions: streaming the content of a partition (partition/mbr) *)

\* bytes in a logical sector
sectorSize == 512

\* the largest partition, in sectors
MaxSectors == 2

Min(a, b) == IF a <= b THEN a ELSE b

mbrPartition(start, size) == [Start |-> start, Size |-> size]

\* an MBR slot that is not in use
EmptySlot == mbrPartition(0, 0)

GetStart(p) == p.Start * sectorSize

GetSize(p) == p.Size * sectorSize

\* a slip: no chunk is ever too large for the partition
tooLarge_never(tmpTotal, size) == FALSE

\* the bytes read so far no longer fit the partition
tooLarge(tmpTotal, size) == tmpTotal > size

\* a slip: every chunk is written at the start of the partition
writeOffset_start(start, total) == start

\* where the next chunk goes
writeOffset(start, total) == start + total

\* the producer ended and the partition is not full
sizeMismatch(total, size) == total # size

\* a slip: the chunk that failed is counted as written
writtenBefore_withChunk(total, read) == total + read

\* the count returned with a write error: what the earlier chunks delivered
writtenBefore(total, read) == total

\* the loop of WriteContents: take up to a sector from the producer, refuse
\* it when it no longer fits, write it after what was written, stop when the
\* producer is empty; the failAt-th write on the backend fails (none for 0)
RECURSIVE writeLoop(_, _, _, _, _, _)
writeLoop(start, size, remaining, total, failAt, log) ==
    LET read == Min(sectorSize, remaining)
        tmpTotal == total + read
        chunk == <<writeOffset(start, total), read, total>>
    IN  IF tooLarge(tmpTotal, size)
        THEN [n |-> total, err |-> "requested to write at least", failed |-> FALSE,
              failedAt |-> 0, writes |-> log]
        ELSE IF read = 0
        THEN [n |-> total,
              err |-> IF sizeMismatch(total, size) THEN "write bytes to partition" ELSE "nil",
              failed |-> FALSE, failedAt |-> 0, writes |-> log]
        ELSE IF Len(log) + 1 = failAt
        THEN [n |-> writtenBefore(total, read), err |-> "error writing to file",
              failed |-> TRUE, failedAt |-> failAt, writes |-> Append(log, chunk)]
        ELSE writeLoop(start, size, remaining - read, tmpTotal, failAt, Append(log, chunk))

\* Partition.WriteContents(f, contents) for a producer holding supplied bytes
WriteContents(p, supplied, failAt) ==
    writeLoop(GetStart(p), GetSize(p), supplied, 0, failAt, <<>>)

\* a slip: the whole buffer is counted, not the bytes read into it
readCount_buffer(total, got) == total + sectorSize

\* the bytes delivered after a read of got bytes
readCount(total, got) == total + got

\* the loop of ReadContents: read sector after sector up to the partition's
\* end and hand what was read to the sink.  The backend holds avail bytes
\* from the partition's start and reports end-of-data with a read that it
\* cannot fill; the failAt-th read on the backend fails (none for 0)
RECURSIVE readLoop(_, _, _, _, _, _, _)
readLoop(start, size, avail, total, failAt, log, sink) ==
    LET want == Min(sectorSize, size - total)
        got == IF avail - total >= want THEN want
               ELSE IF avail > total THEN avail - total ELSE 0
        chunk == <<start + total, want, total>>
        out == IF got > 0 THEN Append(sink, <<total, got, start + total>>) ELSE sink
    IN  IF total >= size
        THEN [n |-> total, err |-> "nil", failed |-> FALSE, failedAt |-> 0,
              reads |-> log, sink |-> sink]
        ELSE IF Len(log) + 1 = failAt
        THEN [n |-> total, err |-> "error reading from file", failed |-> TRUE,
              failedAt |-> failAt, reads |-> Append(log, chunk), sink |-> sink]
        ELSE IF got < want
        THEN [n |-> readCount(total, got), err |-> "nil", failed |-> FALSE, failedAt |-> 0,
              reads |-> Append(log, chunk), sink |-> out]
        ELSE readLoop(start, size, avail, readCount(total, got), failAt,
                      Append(log, chunk), out)

\* Partition.ReadContents(f, out)
ReadContents(p, avail, failAt) ==
    readLoop(GetStart(p), GetSize(p), avail, 0, failAt, <<>>, <<>>)

----------------------------------------------------------------------------
(* The Disk (disk/disk.go) *)

\* the tables handed to Partition: two partitions, the same behind an empty
\* first slot, and no partition at all
TwoPartitions ==
    [isNil |-> FALSE, partitions |-> <<mbrPartition(1, 1), mbrPartition(2, MaxSectors)>>]

EmptyFirstSlot ==
    [isNil |-> FALSE,
     partitions |-> <<EmptySlot, mbrPartition(1, 1), mbrPartition(2, MaxSectors)>>]

NoPartitions == [isNil |-> FALSE, partitions |-> <<>>]

Tables == {TwoPartitions, EmptyFirstSlot, NoPartitions}

\* most partitions in a table
MaxParts == 3

\* Disk.Size in bytes
DiskSize == (MaxSectors + 2) * sectorSize

\* a backend with regions where two types parse, one where one does, and
\* one where none does
Images ==
    { [s \in StartSectors |->
          CASE s = 0 -> {"iso9660", "ext4"} [] s = 1 -> {"squashfs", "ext4"} [] s = 2 -> {}] }

FSTypes == {"fat32", "iso9660", "ext4", "squashfs", "unknown"}

RECURSIVE isPowerOf2(_)
\* a slip: every even number passes
isPowerOf2_even(n) == n % 2 = 0

isPowerOf2(n) == n = 1 \/ (n > 1 /\ n % 2 = 0 /\ isPowerOf2(n \div 2))

validateBlocksize(bs) ==
    IF bs < minBlocksize THEN "too small"
    ELSE IF bs > maxBlocksize THEN "too large"
    ELSE IF ~isPowerOf2(bs) THEN "not a power of 2"
    ELSE "nil"

\* squashfs.Read up to the superblock: the block size is checked first
squashfsRead(image, start, bs) ==
    /\ validateBlocksize(IF bs = 0 THEN defaultBlockSize ELSE bs) = "nil"
    /\ "squashfs" \in image[start \div sectorSize]

\* squashfs.Create
squashfsCreate(bs) == validateBlocksize(IF bs = 0 THEN defaultBlockSize ELSE bs) = "nil"

\* a slip: the part-th partition that is in use, empty slots not counted
slotOf_skipEmpty(partitions, part) ==
    LET used == {i \in 1..Len(partitions) : partitions[i].Size > 0}
        upTo(i) == Cardinality({j \in used : j <= i})
    IN  IF \E i \in used : upTo(i) = part
        THEN (CHOOSE i \in used : upTo(i) = part) - 1
        ELSE part - 1

\* the index into the slice of partitions for partition number part
slotOf(partitions, part) == part - 1

inSlice(partitions, slot) == slot \in 0..(Len(partitions) - 1)

\* partitions[slot], a slice indexed from 0
sliceAt(partitions, slot) == partitions[slot + 1]

\* a method called on a Backend that is the nil interface value
nilBackend(b) == b = "nil"

\* Disk.GetPartitionTable: partition.Read finds the table stored on the backend
GetPartitionTable ==
    IF disk.onDisk.isNil
    THEN /\ dret' = [Dret("GetPartitionTable", 0) EXCEPT !.err = "error"]
         /\ UNCHANGED disk
    ELSE /\ disk' = [disk EXCEPT !.Table = disk.onDisk]
         /\ dret' = Dret("GetPartitionTable", 0)

\* Disk.Partition(table); io tells whether table.Write succeeds and whether
\* ReReadPartitionTable does
Partition(table, io) ==
    IF nilBackend(disk.Backend)
    THEN /\ dret' = [Dret("Partition", 0) EXCEPT !.err = "panic"]
         /\ UNCHANGED disk
    ELSE IF ~disk.writable
    THEN /\ dret' = [Dret("Partition", 0) EXCEPT !.err = "error"]
         /\ UNCHANGED disk
    ELSE IF io = "writeerr"
    THEN /\ dret' = [Dret("Partition", 0) EXCEPT
                        !.err = "failed to write partition table", !.failed = TRUE]
         /\ UNCHANGED disk
    ELSE /\ disk' = [disk EXCEPT !.Table = table, !.onDisk = table]
         /\ dret' = [Dret("Partition", 0) EXCEPT
                        !.err = IF io = "rereaderr"
                                THEN "unable to re-read partition table" ELSE "nil"]

\* the backend after the chunks in writes reached it: a filesystem whose
\* first sector was overwritten no longer parses
overwritten(image, writes, failed) ==
    LET done == IF failed THEN Len(writes) - 1 ELSE Len(writes)
    IN  [s \in StartSectors |->
            IF \E i \in 1..done : writes[i][1] <= s * sectorSize
                                  /\ s * sectorSize < writes[i][1] + writes[i][2]
            THEN {} ELSE image[s]]

\* Disk.WritePartitionContents(part, reader)
WritePartitionContents(part, supplied, failAt) ==
    LET partitions == disk.Table.partitions
        out == [Dret("WritePartitionContents", part) EXCEPT !.supplied = supplied]
        fail == [out EXCEPT !.n = -1, !.err = "error"]
        slot == slotOf(partitions, part)
    IN  IF nilBackend(disk.Backend)
        THEN dret' = [out EXCEPT !.err = "panic"] /\ UNCHANGED disk
        ELSE IF ~disk.writable \/ disk.Table.isNil \/ part < 0 \/ part > Len(partitions)
        THEN dret' = fail /\ UNCHANGED disk
        ELSE IF ~inSlice(partitions, slot)
        THEN dret' = [out EXCEPT !.err = "panic"] /\ UNCHANGED disk
        ELSE LET p == sliceAt(partitions, slot)
                 w == WriteContents(p, supplied, failAt)
             IN  /\ dret' = [out EXCEPT !.n = w.n, !.err = w.err, !.slot = slot,
                                 !.start = GetStart(p), !.size = GetSize(p),
                                 !.failed = w.failed, !.failedAt = w.failedAt,
                                 !.writes = w.writes]
                 /\ disk' = [disk EXCEPT !.image = overwritten(@, w.writes, w.failed)]

\* Disk.ReadPartitionContents(part, writer)
ReadPartitionContents(part, avail, failAt) ==
    LET partitions == disk.Table.partitions
        out == [Dret("ReadPartitionContents", part) EXCEPT !.supplied = avail]
        fail == [out EXCEPT !.n = -1, !.err = "error"]
        slot == slotOf(partitions, part)
    IN  /\ UNCHANGED disk
        /\ IF disk.Table.isNil \/ part < 0 \/ part > Len(partitions)
           THEN dret' = fail
           ELSE IF ~inSlice(partitions, slot)
           THEN dret' = [out EXCEPT !.err = "panic"]
           ELSE LET p == sliceAt(partitions, slot)
                    r == ReadContents(p, avail, failAt)
                IN  dret' = [out EXCEPT !.n = r.n, !.err = r.err, !.slot = slot,
                                 !.start = GetStart(p), !.size = GetSize(p),
                                 !.failed = r.failed, !.failedAt = r.failedAt,
                                 !.reads = r.reads, !.sink = r.sink]

\* the probes of GetFilesystem in their order: fat32, iso9660, squashfs, ext4
probeOrder_isoFirst == <<"iso9660", "fat32", "squashfs", "ext4">>

probeOrder == <<"fat32", "iso9660", "squashfs", "ext4">>

\* the Read of one filesystem type on the region starting at start: "nil",
\* "error", or "panic" when squashfs.Read calls ReadAt on a nil backend
readAs(t, b, image, start, bs) ==
    IF t = "squashfs"
    THEN IF validateBlocksize(IF bs = 0 THEN defaultBlockSize ELSE bs) = "nil"
            /\ nilBackend(b)
         THEN "panic"
         ELSE IF squashfsRead(image, start, bs) THEN "nil" ELSE "error"
    ELSE IF t \in image[start \div sectorSize] THEN "nil" ELSE "error"

RECURSIVE tryEach(_, _, _, _, _, _)
tryEach(i, b, image, start, bs, log) ==
    IF i > Len(probeOrder)
    THEN [fs |-> "nil", err |-> "unknown filesystem", probed |-> log]
    ELSE LET t == probeOrder[i]
             r == readAs(t, b, image, start, bs)
         IN  IF r = "nil"
             THEN [fs |-> t, err |-> "nil", probed |-> Append(log, <<t, TRUE>>)]
             ELSE IF r = "panic"
             THEN [fs |-> "nil", err |-> "panic", probed |-> Append(log, <<t, FALSE>>)]
             ELSE tryEach(i + 1, b, image, start, bs, Append(log, <<t, FALSE>>))

probe(b, image, start, bs) == tryEach(1, b, image, start, bs, <<>>)

\* "partition %d greater than maximum partition %d"
greaterThanMaximum_plusOne(part, partitions) == part > Len(partitions) + 1

greaterThanMaximum(part, partitions) == part > Len(partitions)

\* Disk.GetFilesystem(part)
GetFilesystem(part) ==
    LET partitions == disk.Table.partitions
        out == Dret("GetFilesystem", part)
        slot == slotOf(partitions, part)
        found(sl, start, size) ==
            LET tried == probe(disk.Backend, disk.image, start, disk.LogicalBlocksize)
            IN  [out EXCEPT !.slot = sl, !.start = start, !.size = size,
                            !.fs = tried.fs, !.probed = tried.probed, !.err = tried.err]
    IN  /\ UNCHANGED disk
        /\ IF part = 0
           THEN dret' = found(-1, 0, disk.Size)
           ELSE IF disk.Table.isNil \/ greaterThanMaximum(part, partitions)
           THEN dret' = [out EXCEPT !.err = "error"]
           ELSE IF ~inSlice(partitions, slot)
           THEN dret' = [out EXCEPT !.err = "panic"]
           ELSE dret' = found(slot, GetStart(sliceAt(partitions, slot)),
                              GetSize(sliceAt(partitions, slot)))

\* Disk.CreateFilesystem(spec) for spec.Partition = part, spec.FSType = fstype
CreateFilesystem(part, fstype) ==
    LET partitions == disk.Table.partitions
        out == Dret("CreateFilesystem", part)
        slot == slotOf(partitions, part)
        create(sl, start, size) ==
            LET made == [out EXCEPT !.slot = sl, !.start = start, !.size = size,
                                    !.fs = fstype]
                refused == [out EXCEPT !.slot = sl, !.start = start, !.size = size,
                                       !.err = "error"]
            IN  CASE fstype \in {"fat32", "ext4"} ->
                        IF disk.writable
                        THEN /\ dret' = made
                             /\ disk' = [disk EXCEPT !.image[start \div sectorSize] = {fstype}]
                        ELSE dret' = refused /\ UNCHANGED disk
                  [] fstype = "iso9660" -> dret' = made /\ UNCHANGED disk
                  [] fstype = "squashfs" ->
                        /\ dret' = IF squashfsCreate(disk.LogicalBlocksize)
                                   THEN made ELSE refused
                        /\ UNCHANGED disk
                  [] OTHER -> dret' = refused /\ UNCHANGED disk
    IN  IF part = 0
        THEN create(-1, 0, disk.Size)
        ELSE IF disk.Table.isNil \/ greaterThanMaximum(part, partitions)
        THEN dret' = [out EXCEPT !.err = "error"] /\ UNCHANGED disk
        ELSE IF ~inSlice(partitions, slot)
        THEN dret' = [out EXCEPT !.err = "panic"] /\ UNCHANGED disk
        ELSE create(slot, GetStart(sliceAt(partitions, slot)),
                    GetSize(sliceAt(partitions, slot)))

\* Disk.Close; io tells whether closing the backend succeeds
Close(io) ==
    IF nilBackend(disk.Backend)
    THEN dret' = [Dret("Close", 0) EXCEPT !.err = "panic"] /\ UNCHANGED disk
    ELSE IF io # "ok"
    THEN dret' = [Dret("Close", 0) EXCEPT !.err = "close error", !.failed = TRUE]
         /\ UNCHANGED disk
    ELSE dret' = Dret("Close", 0) /\ disk' = NilDisk

\* the partition numbers asked for
Parts == (-1)..(MaxParts + 1)

\* what a producer holds: nothing, part of a sector, whole sectors, a sector
\* and part of the next
Supplies ==
    {0, sectorSize \div 4, sectorSize + sectorSize \div 4}
        \cup {k * sectorSize : k \in 1..(MaxSectors + 1)}

DoGetPartitionTable == GetPartitionTable /\ UNCHANGED <<fsVars, mbrVars>>

DoPartition ==
    \E table \in Tables, io \in {"ok", "writeerr", "rereaderr"} : Partition(table, io) /\ UNCHANGED <<fsVars, mbrVars>>

DoWritePartitionContents ==
    \E part \in Parts, supplied \in Supplies, failAt \in 0..MaxSectors :
        WritePartitionContents(part, supplied, failAt) /\ UNCHANGED <<fsVars, mbrVars>>

\* what the backend holds from the start of a partition: nothing, part of a
\* sector, one sector, a sector and part of the next, everything up to the
\* end of the disk
Avails == {0, sectorSize \div 4, sectorSize, sectorSize + sectorSize \div 4, DiskSize}

DoReadPartitionContents ==
    \E part \in Parts, avail \in Avails, failAt \in 0..MaxSectors :
        ReadPartitionContents(part, avail, failAt) /\ UNCHANGED <<fsVars, mbrVars>>

DoGetFilesystem == \E part \in Parts : GetFilesystem(part) /\ UNCHANGED <<fsVars, mbrVars>>

\* the filesystems asked for: every type on the whole disk, and on a
\* partition every type but ext4
CreateRequests == {rq \in Parts \X FSTypes : rq[2] = "ext4" => rq[1] = 0}

DoCreateFilesystem ==
    \E rq \in CreateRequests : CreateFilesystem(rq[1], rq[2]) /\ UNCHANGED <<fsVars, mbrVars>>

\* a Disk just opened, read-only or read-write, on a backend with or without
\* a partition table and filesystems; no squashfs handle is in use
DoClose == \E io \in {"ok", "closeerr"} : Close(io) /\ UNCHANGED <<fsVars, mbrVars>>

InitDisk ==
    /\ disk \in [Backend : {"storage"}, Size : {DiskSize}, writable : BOOLEAN,
                 LogicalBlocksize : {sectorSize, minBlocksize},
                 Table : {NilTable}, onDisk : {NilTable, EmptyFirstSlot}, image : Images]
    /\ dret = Dret("open", 0)
    /\ codec = NoCodec
    /\ CreateHandle(defaultBlockSize)
    /\ recency = <<>>
    /\ ret = Ret("open", "nil")
    /\ host = EmptyHost

NextDisk ==
    \/ DoGetPartitionTable
    \/ DoPartition
    \/ DoWritePartitionContents
    \/ DoReadPartitionContents
    \/ DoGetFilesystem
    \/ DoCreateFilesystem
    \/ DoClose

SpecDisk == InitDisk /\ [][NextDisk]_vars

----------------------------------------------------------------------------
(* The entry codec on its own: entries and byte slices to convert          *)

\* CHS triples <<head, sector, cylinder>>: sector 1..63, cylinder 0..1023
CHSs == { <<0, 2, 0>>, <<32, 33, 0>>, <<254, 63, 1023>>, <<1, 1, 256>> }

EntryTypes == { 131, 12 }

StartLBAs == { 0, 2048, 16909060 }

SectorCounts == { 20480, 2147483647 }

Entries ==
    { mbrEntry(boot, s, t, e, start, size) :
        boot \in BOOLEAN, s \in CHSs, t \in EntryTypes,
        e \in { <<0, 2, 0>>, <<49, 24, 0>>, <<254, 63, 1023>> },
        start \in StartLBAs, size \in SectorCounts }

\* the two entries of the tests: the one encoded and the one decoded
Fixtures ==
    { mbrEntry(FALSE, <<0, 2, 0>>, 131, <<0, 2, 0>>, 2048, 20480),
      mbrEntry(FALSE, <<32, 33, 0>>, 131, <<49, 24, 0>>, 2048, 20480) }

BadBootBytes == { 1, 103, 127, 129, 255 }

ByteInputs ==
    LET fixed == { toBytes(p) : p \in Fixtures }
    IN  { toBytes(p) : p \in Entries }
            \cup { [b EXCEPT ![1] = x] : b \in fixed, x \in BadBootBytes }
            \cup { SubSeq(b, 1, n) : b \in fixed, n \in {0, 1, partitionEntrySize - 1} }
            \cup { b \o SubSeq(b, 1, n) : b \in fixed, n \in {1, partitionEntrySize} }

DoPartitionFromBytes ==
    \E b \in ByteInputs :
        /\ codec' = Codec("partitionFromBytes", ZeroEntry, b, partitionFromBytes(b))
        /\ UNCHANGED <<fsVars, diskVars>>

DoToBytes ==
    \E p \in Entries :
        /\ codec' = Codec("toBytes", p, toBytes(p), NoCodec.out)
        /\ UNCHANGED <<fsVars, diskVars>>

InitMBR ==
    /\ codec = NoCodec
    /\ disk = NilDisk
    /\ dret = Dret("open", 0)
    /\ CreateHandle(defaultBlockSize)
    /\ recency = <<>>
    /\ ret = Ret("open", "nil")
    /\ host = EmptyHost

NextMBR ==
    \/ DoPartitionFromBytes
    \/ DoToBytes

SpecMBR == InitMBR /\ [][NextMBR]_vars

----------------------------------------------------------------------------
(* Opening a squashfs handle: Create and Read with a requested block size  *)

MaxLog2 == 22

\* the block sizes asked for: the powers of two up to 2^MaxLog2, their
\* neighbours and their triples, zero, and negative sizes
BlockSizes ==
    {0, -1, -minBlocksize, 3000}
        \cup UNION { {2^k, 2^k + 1, 2^k - 1, 3 * 2^k} : k \in 0..MaxLog2 }

\* no handle
NoHandle == handleIs(nilFileSystem)

\* no workspace directory on the host
NoHost == [n \in HostNodes |-> "none"]

\* squashfs.Create(b, size, start, blocksize); io tells whether os.MkdirTemp
\* makes the workspace directory
Create(b, io) ==
    LET bs == IF b = 0 THEN defaultBlockSize ELSE b
        v == validateBlocksize(bs)
        out(err) == [Ret("Create", err) EXCEPT !.arg = b]
    IN  IF v # "nil"
        THEN /\ handleBecomes(nilFileSystem) /\ recency' = <<>> /\ host' = NoHost
             /\ ret' = out(v)
        ELSE IF io # "ok"
        THEN /\ handleBecomes(nilFileSystem) /\ recency' = <<>> /\ host' = NoHost
             /\ ret' = [out("could not create working directory") EXCEPT !.io = io]
        ELSE /\ handleBecomes(createFileSystem(bs)) /\ recency' = <<>> /\ host' = EmptyHost
             /\ ret' = [out("nil") EXCEPT !.io = io]

\* squashfs.Read(b, size, start, blocksize) on an image whose superblock
\* holds the block size sb; io tells how far the reads on the backend get.
\* ret.reads counts the reads made on the backend up to the root inode.
Read(b, sb, io) ==
    LET bs == IF b = 0 THEN defaultBlockSize ELSE b
        v == validateBlocksize(bs)
        out(err, reads) == [Ret("Read", err) EXCEPT !.arg = b, !.reads = reads]
        failed(err, reads) ==
            /\ handleBecomes(nilFileSystem) /\ recency' = <<>> /\ host' = NoHost
            /\ ret' = [out(err, reads) EXCEPT !.io = io]
    IN  IF v # "nil"
        THEN /\ handleBecomes(nilFileSystem) /\ recency' = <<>> /\ host' = NoHost
             /\ ret' = out(v, 0)
        ELSE CASE io = "readerr" -> failed("unable to read bytes for superblock", 1)
               [] io = "short" -> failed("read bytes instead of expected for superblock", 1)
               [] io = "badsuperblock" -> failed("error parsing superblock", 1)
               [] io = "badtable" -> failed("error reading fragments", 2)
               [] OTHER ->
                    /\ handleBecomes(readFileSystem(sb)) /\ recency' = <<ImageInodes.root.block>>
                    /\ host' = NoHost
                    /\ ret' = [out("nil", 3) EXCEPT !.io = io]

DoCreate ==
    \E b \in BlockSizes, io \in {"ok", "mkdirerr"} :
        Create(b, io) /\ UNCHANGED <<diskVars, mbrVars>>

DoRead ==
    \E b \in BlockSizes, sb \in {minBlocksize, defaultBlockSize},
       io \in {"ok", "readerr", "short", "badsuperblock", "badtable"} :
        Read(b, sb, io) /\ UNCHANGED <<diskVars, mbrVars>>

InitOpen ==
    /\ NoHandle
    /\ recency = <<>>
    /\ host = NoHost
    /\ ret = Ret("none", "nil")
    /\ disk = NilDisk
    /\ dret = Dret("open", 0)
    /\ codec = NoCodec

NextOpen ==
    \/ DoCreate
    \/ DoRead

SpecOpen == InitOpen /\ [][NextOpen]_vars

----------------------------------------------------------------------------
(* readUidsGids: the id table behind its index of metadata blocks *)

idEntrySize == 4
metadataBlockSize == 8192
idsPerBlock == metadataBlockSize \div idEntrySize

uint16(x) == x % 65536

\* idBytes := idCount * idEntrySize
\* idBlocks := ((idBytes - 1) / uint16(metadataBlockSize)) + 1, all in uint16
idBlocksOf(idCount) ==
    LET idBytes == uint16(idCount * idEntrySize)
    IN  uint16(uint16(idBytes - 1) \div uint16(metadataBlockSize) + 1)

\* the id metadata blocks an image with idCount ids holds
imageIdBlocks(idCount) == (idCount * idEntrySize + metadataBlockSize - 1) \div metadataBlockSize

\* the ids in the first n id metadata blocks of such an image
idsIn(idCount, n) == IF n * idsPerBlock < idCount THEN n * idsPerBlock ELSE idCount

\* readUidsGids(s, file, c) for a superblock with s.idCount = idCount; the
\* failAt-th read fails (none when failAt = 0): the first read is the one of
\* the index, the others are those of the metadata blocks in index order
readUidsGids(idCount, failAt) ==
    IF idCount = 0
    THEN ret' = [Ret("readUidsGids", "nil") EXCEPT !.arg = idCount, !.io = "ok"]
    ELSE LET idBlocks == idBlocksOf(idCount)
             out == [Ret("readUidsGids", "nil") EXCEPT !.arg = idCount, !.io = "ok",
                         !.calls = 1]
         IN  IF failAt = 1
             THEN ret' = [out EXCEPT !.err = "unable to read index bytes",
                                     !.io = "readerr"]
             ELSE IF failAt \in 2..(idBlocks + 1)
             THEN ret' = [out EXCEPT !.err = "error reading uidgid index meta block",
                                     !.io = "readerr",
                                     !.steps = idBlocks, !.reads = failAt - 1]
             ELSE ret' = [out EXCEPT !.steps = idBlocks, !.reads = idBlocks,
                                     !.length = idsIn(idCount, idBlocks)]

\* id counts around the block boundaries and around the 16-bit byte count
IdCounts ==
    {0, 1, 2, 2047, 2048, 2049, 4096, 4097, 6145, 8192, 8193, 12288, 14337,
     16383, 16384, 16385, 18433, 32768, 49153, 65535}

MaxIdReads == 10

DoReadUidsGids ==
    \E idCount \in IdCounts, failAt \in 0..MaxIdReads :
        /\ readUidsGids(idCount, failAt)
        /\ UNCHANGED <<workspace, blocksize, compressor, fragments, cache, recency,
                       host, disk, dret, codec>>

NextIds == DoReadUidsGids

SpecIds == InitOpen /\ [][NextIds]_vars

----------------------------------------------------------------------------
(* Properties of the block cache *)

\* C1: eviction is least-recently-used.  With capacity c >= 1 the cache
\* never holds more than c blocks, the positions it holds are the most
\* recently accessed ones in most-recently-used order, and once c or more
\* distinct positions were accessed exactly the c most recent remain.
C1_LeastRecentlyUsed ==
    cacheEnabled(cache) =>
        /\ Len(cache.list) <= cache.maxBlocks
        /\ Take(MRU(cache), Len(recency)) = Take(recency, cache.maxBlocks)
        /\ (Len(recency) >= cache.maxBlocks =>
                MRU(cache) = Take(recency, cache.maxBlocks))

\* capacity 3, accesses a, b, c, a, d (positions 0, 1, 2, 0, 3): d, a, c remain
C1_Witness ==
    /\ cache.maxBlocks = 3
    /\ recency = <<3, 0, 2, 1>>
    /\ MRU(cache) = <<3, 0, 2>>

\* C2: a block in the cache holds the payload loaded for its own position,
\* and a get for position p that succeeds returns bytes of the block at p,
\* whether a fragment or a metadata access put it there.
C2_PositionTagged ==
    /\ \A i \in 1..Len(cache.list) : cache.list[i].data.origin = cache.list[i].pos
    /\ (ret.accessed /\ ret.err = "nil" => ret.data.origin = ret.want)

\* a fragment read served from the cache at a position a metadata read loaded
C2_Witness ==
    /\ ret.op = "readFragment" /\ ret.hit /\ ret.err = "nil"
    /\ ret.want = 0 /\ ret.data.origin = 0 /\ ret.data.dec
    /\ Len(cache.list) >= 2

\* C3: an access to a position that is not cached calls the loader once, an
\* access to a cached position calls nothing and reads nothing; a failed
\* backend read gives the caller an error, and an access that returns an
\* error leaves the cache as it was.
C3_LoaderOnceOnMiss ==
    [][ret'.accessed =>
        /\ (cacheEnabled(cache) /\ isCached(cache, ret'.want) =>
                ret'.calls = 0 /\ ret'.reads = 0 /\ ret'.err # "error")
        /\ (~(cacheEnabled(cache) /\ isCached(cache, ret'.want)) =>
                ret'.calls = 1 /\ ret'.reads = 1)
        /\ (ret'.io \in {"readerr", "short"} => ret'.err = "error")
        /\ (ret'.err = "error" => ret'.calls = 1 /\ cache' = cache)]_vars

\* a loader that failed with other blocks in the cache
C3_Witness ==
    /\ ret.accessed /\ ret.io = "short" /\ ret.err = "error"
    /\ cacheEnabled(cache) /\ Len(cache.list) = 2

\* C4: SetCacheSize(n) with n <= 0 leaves an empty cache and GetCacheSize()
\* = 0, and while GetCacheSize() is 0 every access on a handle made by Read
\* calls the loader and inserts nothing.
C4_DisabledCache ==
    [][/\ (ret'.op = "SetCacheSize" /\ ret'.arg <= 0 =>
                GetCacheSize' = 0 /\ cache'.list = <<>>)
       /\ (~cache.isNil /\ GetCacheSize = 0 /\ ret'.accessed =>
                /\ ret'.calls = 1 /\ ~ret'.hit
                /\ cache'.list = <<>> /\ GetCacheSize' = 0)]_vars

\* a fragment read after the cache was disabled
C4_Witness ==
    /\ ~cache.isNil /\ cache.maxBlocks = 0 /\ GetCacheSize = 0
    /\ ret.op = "readFragment" /\ ret.accessed /\ ret.err = "nil" /\ ret.calls = 1

----------------------------------------------------------------------------
(* Properties of the filesystem interface on a handle made by Read *)

\* C5: on a handle without a workspace, OpenFile with a write-intent flag
\* returns ErrReadonlyFilesystem for every path, and has made no backend read
\* and no cache access.
C5_ReadOnlyForEveryPath ==
    (ret.op = "OpenFile" /\ workspace = "" /\ writeMode(ret.arg)) =>
        /\ ret.err = "ErrReadonlyFilesystem"
        /\ ~ret.accessed /\ ret.reads = 0

MutatingCalls ==
    {"Mkdir", "SetLabel", "Rename", "Remove", "Mknod", "Link", "Symlink", "Chmod", "Chown"}

\* C6 as stated: on a handle without a workspace every mutating call fails
\* with ErrReadonlyFilesystem.
C6_AllReadOnly ==
    (workspace = "" /\ ret.op \in MutatingCalls) => ret.err = "ErrReadonlyFilesystem"

\* C6: on a handle without a workspace Mkdir, SetLabel, Rename and Remove fail
\* with ErrReadonlyFilesystem, Mknod, Link, Symlink, Chmod and Chown fail with
\* ErrNotImplemented, and each of the nine leaves the handle, its cache and
\* the backing directory unchanged.
C6_MutatingCallsFail ==
    [][(workspace = "" /\ ret'.op \in MutatingCalls) =>
        /\ ret'.err = IF ret'.op \in {"Mkdir", "SetLabel", "Rename", "Remove"}
                      THEN "ErrReadonlyFilesystem" ELSE "ErrNotImplemented"
        /\ UNCHANGED <<handleFrame, cache, host>>]_vars

\* Mknod refused on a handle whose cache holds blocks
C6_Witness ==
    /\ workspace = "" /\ ret.op = "Mknod" /\ ret.err = "ErrNotImplemented"
    /\ cache.list # <<>> /\ host = EmptyHost

----------------------------------------------------------------------------
(* Properties of the Disk and of MBR partition content *)

PartitionCalls ==
    {"ReadPartitionContents", "WritePartitionContents", "GetFilesystem", "CreateFilesystem"}

\* every backend access in log lies in the bytes from start up to start + size
withinRange(log, start, size) ==
    \A i \in 1..Len(log) : start <= log[i][1] /\ log[i][1] + log[i][2] <= start + size

\* C7: for a Disk with a table of n partitions and 1 <= part <= n, each of
\* ReadPartitionContents, WritePartitionContents (on a writable backend),
\* GetFilesystem and CreateFilesystem takes the partition in slot part-1 of
\* the table, empty lower slots counted: it hands on that partition's start
\* and size, and reads and writes the backend only inside its byte range.
C7_OneBasedIndex ==
    LET partitions == disk.Table.partitions
    IN  (/\ dret.op \in PartitionCalls
         /\ ~disk.Table.isNil /\ dret.part \in 1..Len(partitions)
         /\ (dret.op = "WritePartitionContents" => disk.writable)) =>
            /\ dret.slot = dret.part - 1
            /\ dret.start = partitions[dret.part].Start * sectorSize
            /\ dret.size = partitions[dret.part].Size * sectorSize
            /\ withinRange(dret.writes, dret.start, dret.size)
            /\ withinRange(dret.reads, dret.start, dret.size)

\* partition 2 behind an empty slot 1: the filesystem found is the one in slot 1
C7_Witness ==
    /\ dret.op = "GetFilesystem" /\ dret.part = 2 /\ dret.slot = 1
    /\ disk.Table.partitions[1] = EmptySlot
    /\ dret.start = sectorSize /\ dret.fs = "squashfs"

\* C8: with a table loaded, ReadPartitionContents and WritePartitionContents
\* for a part outside 1..len(partitions), 0 and negative numbers included,
\* return -1 and an error and make no read or write.
C8_OutOfRangeRefused ==
    (/\ dret.op \in {"ReadPartitionContents", "WritePartitionContents"}
     /\ ~disk.Table.isNil /\ dret.part \notin 1..Len(disk.Table.partitions)) =>
        /\ dret.n = -1 /\ dret.err = "error"
        /\ dret.slot = -1 /\ dret.writes = <<>> /\ dret.reads = <<>>

\* C9: WritePartitionContents that reached WriteContents never writes outside
\* the partition's byte range and never reports more than its capacity; when
\* the producer holds more than the capacity and the backend takes every
\* write, it reports the capacity written (512 for 1024 bytes and one sector)
\* and the error "requested to write at least".
C9_TooLargeProducer ==
    (dret.op = "WritePartitionContents" /\ dret.slot # -1) =>
        /\ withinRange(dret.writes, dret.start, dret.size)
        /\ dret.n <= dret.size
        /\ (dret.supplied > dret.size => dret.err # "nil")
        /\ (dret.supplied > dret.size /\ ~dret.failed =>
                dret.err = "requested to write at least" /\ dret.n = dret.size)

\* 1024 bytes offered to a partition of one sector
C9_Witness ==
    /\ dret.op = "WritePartitionContents" /\ dret.supplied = 1024 /\ dret.size = 512
    /\ dret.n = 512 /\ dret.err = "requested to write at least"
    /\ dret.writes = << <<dret.start, 512, 0>> >>

\* the chunks in log carry the producer's bytes in order, without gap, from start
contiguous(log, start) ==
    \A i \in 1..Len(log) :
        /\ log[i][1] = start + log[i][3]
        /\ log[i][3] = IF i = 1 THEN 0 ELSE log[i - 1][3] + log[i - 1][2]

written(log) == IF log = <<>> THEN 0 ELSE log[Len(log)][3] + log[Len(log)][2]

\* C10: WriteContents returns nil only for a producer that holds exactly the
\* capacity, and then the count is the capacity and the backend has taken
\* the producer's bytes in order and without gap from Start x sector size;
\* a producer holding exactly the capacity gets nil when the backend takes
\* every write; a producer holding less gets an error, with the count of
\* its bytes when the backend took them.
C10_ExactProducer ==
    (dret.op = "WritePartitionContents" /\ dret.slot # -1) =>
        /\ (dret.err = "nil" =>
                /\ dret.supplied = dret.size /\ dret.n = dret.size
                /\ contiguous(dret.writes, dret.start)
                /\ written(dret.writes) = dret.size)
        /\ (dret.supplied = dret.size /\ ~dret.failed => dret.err = "nil")
        /\ (dret.supplied < dret.size =>
                /\ dret.err # "nil"
                /\ (~dret.failed => dret.n = dret.supplied
                                    /\ dret.err = "write bytes to partition"))

\* two sectors taken in two chunks by the second partition
C10_Witness ==
    /\ dret.op = "WritePartitionContents" /\ dret.err = "nil"
    /\ dret.part = 2 /\ dret.slot = 1 /\ dret.n = 2 * sectorSize
    /\ Len(dret.writes) = 2 /\ dret.writes[2][1] = dret.start + sectorSize

\* the bytes the chunks before the k-th of log carry
acceptedBefore(log, k) == IF k <= 1 THEN 0 ELSE log[k - 1][3] + log[k - 1][2]

\* C11: when a write on the backend fails during WriteContents, the call
\* makes no further write, returns the write error, and the count is the
\* bytes of the chunks the backend took before the failing one, 0 when the
\* first write fails; WritePartitionContents hands both on.
C11_CountBeforeFailedWrite ==
    (dret.op = "WritePartitionContents" /\ dret.failed) =>
        /\ dret.err = "error writing to file"
        /\ dret.failedAt = Len(dret.writes)
        /\ contiguous(dret.writes, dret.start)
        /\ dret.n = acceptedBefore(dret.writes, dret.failedAt)
        /\ (dret.failedAt = 1 => dret.n = 0)

\* the second write fails after one sector was taken
C11_Witness ==
    /\ dret.op = "WritePartitionContents" /\ dret.failed /\ dret.failedAt = 2
    /\ dret.n = sectorSize /\ Len(dret.writes) = 2 /\ dret.supplied = 2 * sectorSize

\* the chunks in sink follow each other without gap and each carries the
\* bytes read at its place in the partition
inOrder(sink, start) ==
    \A i \in 1..Len(sink) :
        /\ sink[i][1] = IF i = 1 THEN 0 ELSE sink[i - 1][1] + sink[i - 1][2]
        /\ sink[i][3] = start + sink[i][1]

delivered(sink) == IF sink = <<>> THEN 0 ELSE sink[Len(sink)][1] + sink[Len(sink)][2]

\* C12: ReadContents returns the number of bytes it handed to the sink, and
\* the sink holds them in order.  When the backend reports end-of-data, or
\* the end of the partition is reached, the error is nil and the sink holds
\* exactly the bytes read.  When a read on the backend fails the read error
\* is returned with the count delivered before it (0 for the first read) and
\* nothing more reaches the sink.
C12_CountDelivered ==
    (dret.op = "ReadPartitionContents" /\ dret.slot # -1) =>
        /\ dret.n = delivered(dret.sink)
        /\ inOrder(dret.sink, dret.start)
        /\ (~dret.failed =>
                dret.err = "nil" /\ dret.n = Min(dret.supplied, dret.size))
        /\ (dret.failed =>
                /\ dret.err = "error reading from file"
                /\ dret.failedAt = Len(dret.reads)
                /\ Len(dret.sink) = dret.failedAt - 1
                /\ (dret.failedAt = 1 => dret.n = 0))

\* a backend that ends a quarter of a sector into the second sector
C12_Witness ==
    /\ dret.op = "ReadPartitionContents" /\ dret.err = "nil"
    /\ dret.size = 2 * sectorSize /\ dret.supplied = sectorSize + sectorSize \div 4
    /\ dret.n = dret.supplied /\ Len(dret.sink) = 2

\* C13: partitionFromBytes returns no partition and an error for every
\* slice that is not exactly 16 bytes long, the error saying "data for
\* partition was N bytes instead of expected 16" with N the length given,
\* and for every 16-byte slice whose first byte is neither 0x00 nor 0x80.
C13_BadEntryRefused ==
    (codec.op = "partitionFromBytes"
        /\ (Len(codec.b) # 16 \/ codec.b[1] \notin {0, 128})) =>
            /\ codec.out.isNil
            /\ codec.out.err # "nil"
            /\ (Len(codec.b) # 16 =>
                    /\ codec.out.err = "data for partition was %d bytes instead of expected %d"
                    /\ codec.out.errArgs = <<Len(codec.b), 16>>)

\* one byte more than an entry
C13_Witness ==
    /\ codec.op = "partitionFromBytes"
    /\ Len(codec.b) = 17
    /\ codec.out.isNil
    /\ codec.out.errArgs = <<17, 16>>

C16_FirstReadableWins ==
    (dret.op = "GetFilesystem" /\ dret.err \notin {"error", "panic"}) =>
        LET order == <<"fat32", "iso9660", "squashfs", "ext4">>
            n == Len(dret.probed)
            reads(t) ==
                readAs(t, disk.Backend, disk.image, dret.start, disk.LogicalBlocksize) = "nil"
        IN  /\ n \in 1..4
            /\ \A i \in 1..n : dret.probed[i] = <<order[i], reads(order[i])>>
            /\ \A i \in 1..(n - 1) : ~reads(order[i])
            /\ dret.fs # "nil" => dret.err = "nil" /\ dret.fs = order[n] /\ reads(order[n])
            /\ dret.err = "unknown filesystem" <=> \A i \in 1..4 : ~reads(order[i])
            /\ dret.err = "unknown filesystem" => dret.fs = "nil" /\ n = 4

\* the whole disk reads as iso9660 and would read as ext4: fat32 was tried
\* and failed, ext4 was not tried
C16_Witness ==
    /\ dret.op = "GetFilesystem" /\ dret.part = 0
    /\ dret.fs = "iso9660"
    /\ dret.probed = <<<<"fat32", FALSE>>, <<"iso9660", TRUE>>>>
    /\ "ext4" \in disk.image[0]

\* C17: GetFilesystem and CreateFilesystem given partition 0 work on the
\* whole disk, from byte 0 for Disk.Size bytes, with or without a table
\* loaded.  Given another partition number while no table is loaded, or a
\* number greater than the number of partitions, they return an error, open
\* or create no filesystem and leave the disk as it was.
C17_WholeDiskOrRefused ==
    [][ dret'.op \in {"GetFilesystem", "CreateFilesystem"} =>
          /\ dret'.part = 0 =>
                dret'.slot = -1 /\ dret'.start = 0 /\ dret'.size = disk.Size
          /\ (dret'.part # 0
                 /\ (disk.Table.isNil \/ dret'.part > Len(disk.Table.partitions))) =>
                /\ dret'.err = "error"
                /\ dret'.fs = "nil" /\ dret'.probed = <<>>
                /\ dret'.slot = -1 /\ dret'.size = 0
                /\ disk' = disk ]_vars

\* a filesystem made on the whole of a disk that has a table loaded
C17_Witness ==
    /\ dret.op = "CreateFilesystem" /\ dret.part = 0
    /\ ~disk.Table.isNil /\ Len(disk.Table.partitions) > 0
    /\ dret.err = "nil" /\ dret.fs = "fat32"
    /\ dret.start = 0 /\ dret.size = DiskSize
    /\ disk.image[0] = {"fat32"}

\* the calls on a Disk other than Close
DiskCalls ==
    {"GetPartitionTable", "Partition", "ReadPartitionContents",
     "WritePartitionContents", "GetFilesystem", "CreateFilesystem"}

\* C18: once Close has returned nil the Disk holds no backend, no table and
\* no sizes in every later state, and every later call on it returns an
\* error; when closing the backend fails, Close returns that error and the
\* Disk is as it was.
C18_ClosedDiskUnusable ==
    [][ /\ (dret'.op = "Close" /\ dret'.err = "nil") => disk' = NilDisk
        /\ (dret'.op = "Close" /\ dret'.failed) =>
                dret'.err = "close error" /\ disk' = disk
        /\ disk = NilDisk =>
                /\ disk' = NilDisk
                /\ dret'.op \in DiskCalls => dret'.err \notin {"nil", "panic"} ]_vars

\* C19 as stated: Close of a handle with a workspace removes the workspace
\* and returns no error, also when removing fails; Close of a handle without
\* a workspace returns no error and leaves the host filesystem alone.
C19_CloseNeverFails ==
    [][ ret'.op = "Close" =>
          /\ ret'.err = "nil"
          /\ (workspace # "" /\ ret'.io = "ok") => \A n \in HostNodes : host'[n] = "none"
          /\ workspace = "" => host' = host ]_vars

\* C19, amended: Close of a handle with a workspace removes the workspace and
\* returns what removing it returned: no error when it is removed, the error
\* when removing fails.  Close of a handle without a workspace returns no
\* error and leaves the host filesystem alone.
C19_CloseReturnsRemoveError ==
    [][ ret'.op = "Close" =>
          /\ (workspace # "" /\ ret'.io = "ok") =>
                ret'.err = "nil" /\ \A n \in HostNodes : host'[n] = "none"
          /\ (workspace # "" /\ ret'.io # "ok") => ret'.err # "nil"
          /\ workspace = "" => ret'.err = "nil" /\ host' = host ]_vars

\* removing the workspace failed and Close said so
C19_Witness ==
    /\ ret.op = "Close" /\ ret.io = "rmerr" /\ ret.err = "error"
    /\ workspace # "" /\ host[<<"d">>] = "dir"

chains(parts, k) ==
    { ids \in [1..(k + 1) -> DOMAIN ImageInodes] :
        /\ ids[1] = "root"
        /\ \A i \in 1..k :
              /\ ImageInodes[ids[i]].type \in {"basicDirectory", "extendedDirectory"}
              /\ \E j \in 1..Len(ImageInodes[ids[i]].entries) :
                    /\ ImageInodes[ids[i]].entries[j].name = parts[i]
                    /\ ImageInodes[ids[i]].entries[j].inode = ids[i + 1] }

isDirectory(id) == ImageInodes[id].type \in {"basicDirectory", "extendedDirectory"}

\* C21: on a read-only handle ReadDir walks down from the root, one path
\* element at a time, matching names exactly.  When every element matches a
\* directory the entries of the directory reached are returned; when an
\* element matches nothing in the directory reached so far the path is
\* reported as not found; when a matched element is not a directory that is
\* reported; there is at most one step per element.  (Reads that fail on the
\* backend are another error.)
C21_DescentByExactName ==
    (ret.op = "ReadDir" /\ workspace = "" /\ ret.err # "read error") =>
        LET parts == splitPath(ret.path)
            n == Len(parts)
            matched == {k \in 0..n : chains(parts, k) # {}}
            deepest == CHOOSE k \in matched : \A j \in matched : j <= k
            last == (CHOOSE ids \in chains(parts, deepest) : TRUE)[deepest + 1]
        IN  /\ ret.steps <= n
            /\ (deepest = n /\ isDirectory(last)) =>
                  /\ ret.err = "nil" /\ ret.steps = n
                  /\ ret.entries = entryNames(ImageInodes[last].entries)
            /\ (deepest < n /\ isDirectory(last)) => ret.err = "could not find path"
            /\ ~isDirectory(last) => ret.err = "not a directory"

\* "/D" is not found although "/d" is a directory
C21_Witness ==
    /\ ret.op = "ReadDir" /\ workspace = ""
    /\ ret.path = <<"/", "D">>
    /\ ret.err = "could not find path" /\ ret.entries = <<>>

C23_HintNeverTrusted ==
    (ret.op = "getInode" /\ ret.io = "ok") =>
        LET in == ImageInodes[ret.file]
            need == inodeTypeToSize(in.type)
            hinted == inodeTypeToSize(ret.hint)
            n == Len(ret.sizes)
        IN  /\ ret.err = "nil"
            /\ ret.inode.header = in.type
            /\ ret.inode.body = [type |-> in.type, fixed |-> need - inodeHeaderSize,
                                 tail |-> in.extra]
            /\ \A h \in InodeTypes : inodesRead[ret.file][h].inode = ret.inode
            /\ n \in 1..3
            /\ ret.sizes[1] = hinted
            /\ \A i \in 2..n : ret.sizes[i] > ret.sizes[i - 1]
            /\ ret.sizes[n] >= need + in.extra
            /\ need > hinted => ret.sizes[2] = need
            /\ (need <= hinted /\ hinted >= need + in.extra) => n = 1

\* a file with a block list is read under the hint of a symlink: three reads
C23_Witness ==
    /\ ret.op = "getInode" /\ ret.io = "ok" /\ ret.err = "nil"
    /\ ret.file = "filea" /\ ret.hint = "basicSymlink"
    /\ ret.sizes = <<24, 32, 40>>
    /\ ret.inode.header = "basicFile"

\* C24: readFragment returns an error for every fragment index that is not
\* below the number of loaded fragment-table entries, and such a call reads
\* nothing from the backend and neither looks into the cache nor adds to it.
C24_IndexPastTableRefused ==
    [][ (ret'.op = "readFragment" /\ ret'.arg >= Len(fragments)) =>
            /\ ret'.err = "error"
            /\ ret'.reads = 0 /\ ret'.calls = 0 /\ ~ret'.accessed
            /\ ret'.data = NoData
            /\ cache' = cache /\ recency' = recency ]_vars

\* the index equal to the number of entries, on a handle with a loaded table
\* and blocks in the cache
C24_Witness ==
    /\ ret.op = "readFragment" /\ ret.err = "error"
    /\ fragments # <<>> /\ ret.arg = Len(fragments)
    /\ cacheEnabled(cache) /\ cache.list # <<>>

\* C25: for a fragment index within the table and any offset and
\* fragmentSize, readFragment returns either exactly the fragmentSize bytes
\* at [offset, offset + fragmentSize) of the decompressed fragment block, or
\* an error; a request reaching outside the block is an error, never a crash.
C25_SliceOrError ==
    (ret.op = "readFragment" /\ ret.arg < Len(fragments)) =>
        \/ ret.err = "error"
        \/ /\ ret.err = "nil"
           /\ dataLen(ret.data) = ret.length
           /\ ret.data.origin = fragments[ret.arg + 1].start
           /\ ret.data.lo = ret.offset
           /\ ~ret.hit =>
                 /\ ret.data.dec = fragments[ret.arg + 1].compressed
                 /\ ret.data.hi <= (IF fragments[ret.arg + 1].compressed THEN 2 ELSE 1)
                                       * fragments[ret.arg + 1].size

\* C26: readUidsGids reads one 64-bit index entry for each id metadata
\* block.  For an id count c of 1..65535, with the reads succeeding, it reads
\* ceil(4 * c / 8192) index entries and the metadata blocks they point to,
\* and returns the c ids; for c = 0 it reads nothing and returns no ids.
C26_OneIndexEntryPerBlock ==
    (ret.op = "readUidsGids" /\ ret.io = "ok") =>
        IF ret.arg = 0
        THEN ret.calls = 0 /\ ret.steps = 0 /\ ret.reads = 0 /\ ret.length = 0
        ELSE /\ ret.calls = 1
             /\ ret.steps = imageIdBlocks(ret.arg)
             /\ ret.reads = ret.steps
             /\ ret.length = ret.arg

\* C27: whatever cache accesses and SetCacheSize calls were made, the cache
\* never holds more blocks than its capacity, which is floor(cacheSize /
\* blocksize) for the last cacheSize set (0 when that was not positive);
\* GetCacheSize is the capacity times the block size and so never exceeds
\* that cacheSize; right after Read it is the default of 128 MB; on a handle
\* from Create SetCacheSize changes nothing and GetCacheSize is 0.
C27_CacheSizeBounds ==
    /\ [](/\ ~cache.isNil =>
                /\ Len(cache.list) <= cache.maxBlocks
                /\ GetCacheSize = cache.maxBlocks * blocksize
          /\ workspace # "" => cache.isNil /\ GetCacheSize = 0
          /\ (ret.op = "open" /\ workspace = "") => GetCacheSize = defaultCacheSize)
    /\ [][ /\ (ret'.op = "SetCacheSize" /\ cache.isNil) => cache' = cache
           /\ (ret'.op = "SetCacheSize" /\ ~cache.isNil) =>
                 /\ cache'.maxBlocks =
                        (IF ret'.arg > 0 THEN ret'.arg \div blocksize ELSE 0)
                 /\ Len(cache'.list) <= cache'.maxBlocks
                 /\ cache'.maxBlocks * blocksize <= (IF ret'.arg > 0 THEN ret'.arg ELSE 0)
           /\ ret'.op # "SetCacheSize" =>
                 /\ cache'.isNil = cache.isNil
                 /\ cache'.maxBlocks = cache.maxBlocks ]_vars

\* a cache of two blocks, set by a cacheSize that is not a multiple of the
\* block size, is full after an access
C27_Witness ==
    /\ ret.op \in {"readFragment", "readMetadata"} /\ ret.err = "nil"
    /\ ~cache.isNil /\ cache.maxBlocks = 2 /\ Len(cache.list) = 2
    /\ GetCacheSize = 2 * blocksize

\* C28: Disk.Partition changes Disk.Table only when it succeeds: whenever
\* it returns an error (the backend cannot be made writable, writing the
\* table fails, or re-reading the table fails) Disk.Table is what it was,
\* and when the backend is not writable nothing is written.
\* GetPartitionTable leaves Disk.Table as it was when the read fails and
\* stores the table it returns when the read succeeds.
C28_TableOnlyOnSuccess ==
    [][ /\ (dret'.op = "Partition" /\ dret'.err \notin {"nil", "panic"}) =>
              disk'.Table = disk.Table
        /\ (dret'.op = "Partition" /\ ~nilBackend(disk.Backend) /\ ~disk.writable) =>
              dret'.err # "nil" /\ disk'.onDisk = disk.onDisk
        /\ (dret'.op = "GetPartitionTable" /\ dret'.err # "nil") =>
              disk'.Table = disk.Table
        /\ (dret'.op = "GetPartitionTable" /\ dret'.err = "nil") =>
              disk'.Table = disk.onDisk ]_vars

====
